---- MODULE Spec2Model ----
(***************************************************************************)
(* Model of the technical-analysis service of ai-insights-package:         *)
(*   src/src/services/technical.ts  (TechnicalAnalysisService)             *)
(*   src/unnamed/part_000           (src/utils/throttle.ts, Throttle)      *)
(*   src/src/types/news.ts          (types/technical.ts, the zod schemas)  *)
(*                                                                         *)
(* Two specifications share the module:                                    *)
(*   Spec        the service as a state machine: concurrent                *)
(*               analyzeTechnicals requests, the shared Throttle, the      *)
(*               price-history fetches, the clock and the TTL cache;       *)
(*   SpecEngine  the synchronous computation pipeline applied to price     *)
(*               series drawn from bounded sets.                           *)
(***************************************************************************)
EXTENDS Integers, Sequences, FiniteSets, TLC

(***************************************************************************)
(* State.                                                                  *)
(***************************************************************************)
VARIABLES
    now,       \* Date.now(), in milliseconds
    ticks,     \* how many times the clock has advanced
    throttle,  \* birdseyeThrottle: [limit, interval, running, lastCall]
    cache,     \* this.cache: key -> <<>> or <<[data, timestamp]>>
    req,       \* the analyzeTechnicals calls: request id -> its progress
    stores,    \* history: the cache.set calls so far, as [key, at]
    cleared,   \* history: clearCache() has removed an entry
    engine     \* the computation pipeline applied to one input (SpecEngine)

vars == <<now, ticks, throttle, cache, req, stores, cleared, engine>>

serviceVars == <<now, ticks, throttle, cache, req, stores, cleared>>

(***************************************************************************)
(* JavaScript numbers.  A number is a pair <<n, d>>: for d > 0 the exact   *)
(* rational n/d in lowest terms; d = 0 encodes the three special values    *)
(* NaN = <<0,0>>, +Infinity = <<1,0>> and -Infinity = <<-1,0>>.  Rounding  *)
(* of IEEE doubles and the sign of zero are not modelled.                  *)
(***************************************************************************)
NaN == <<0, 0>>

PInf == <<1, 0>>

NInf == <<-1, 0>>

AbsInt(n) == IF n < 0 THEN -n ELSE n

RECURSIVE Gcd(_, _)
Gcd(a, b) == IF b = 0 THEN a ELSE Gcd(b, a % b)

\* n/d (d # 0) in lowest terms with a positive denominator
Ratio(n, d) ==
    LET g == Gcd(AbsInt(n), AbsInt(d))
        s == IF d < 0 THEN -1 ELSE 1
    IN  <<(s * n) \div g, (s * d) \div g>>

Num(n) == <<n, 1>>

IsNaN(a) == a = NaN

IsFinite(a) == a[2] # 0

Sign(a) == IF a[1] > 0 THEN 1 ELSE IF a[1] < 0 THEN -1 ELSE 0

Inf(s) == IF s > 0 THEN PInf ELSE NInf

\* a + b (over the least common denominator)
NAdd(a, b) ==
    IF IsNaN(a) \/ IsNaN(b) THEN NaN
    ELSE IF IsFinite(a) /\ IsFinite(b)
         THEN LET g == Gcd(a[2], b[2])
              IN  Ratio(a[1] * (b[2] \div g) + b[1] * (a[2] \div g), (a[2] \div g) * b[2])
    ELSE IF IsFinite(a) THEN b
    ELSE IF IsFinite(b) THEN a
    ELSE IF a = b THEN a ELSE NaN

\* -a
NNeg(a) == <<-a[1], a[2]>>

\* a - b
NSub(a, b) == NAdd(a, NNeg(b))

\* the product of two finite numbers, cancelling before multiplying
FiniteMul(a, b) ==
    LET g1 == Gcd(AbsInt(a[1]), b[2])
        g2 == Gcd(AbsInt(b[1]), a[2])
    IN  Ratio((a[1] \div g1) * (b[1] \div g2), (a[2] \div g2) * (b[2] \div g1))

\* a * b
NMul(a, b) ==
    IF IsNaN(a) \/ IsNaN(b) THEN NaN
    ELSE IF IsFinite(a) /\ IsFinite(b) THEN FiniteMul(a, b)
    ELSE IF Sign(a) * Sign(b) = 0 THEN NaN
    ELSE Inf(Sign(a) * Sign(b))

\* a / b: x/0 is +-Infinity, 0/0 is NaN
NDiv(a, b) ==
    IF IsNaN(a) \/ IsNaN(b) THEN NaN
    ELSE IF IsFinite(a) /\ IsFinite(b)
         THEN IF b[1] # 0 THEN FiniteMul(a, Ratio(b[2], b[1]))
              ELSE IF a[1] = 0 THEN NaN ELSE Inf(Sign(a))
    ELSE IF IsFinite(a) THEN Num(0)
    ELSE IF IsFinite(b) THEN Inf(Sign(a) * (IF b[1] < 0 THEN -1 ELSE 1))
    ELSE NaN

\* a < b: false whenever an operand is NaN
NLt(a, b) ==
    /\ ~IsNaN(a)
    /\ ~IsNaN(b)
    /\ IF IsFinite(a) /\ IsFinite(b)
       THEN LET g == Gcd(a[2], b[2])
            IN  a[1] * (b[2] \div g) < b[1] * (a[2] \div g)
       ELSE IF IsFinite(a) THEN b = PInf
       ELSE IF IsFinite(b) THEN a = NInf
       ELSE a = NInf /\ b = PInf

\* a > b
NGt(a, b) == NLt(b, a)

\* a >= b
NGe(a, b) == ~IsNaN(a) /\ ~IsNaN(b) /\ ~NLt(a, b)

\* Math.abs
MathAbs(a) == <<AbsInt(a[1]), a[2]>>

\* Math.max(a, b): NaN when an argument is NaN
MathMax(a, b) == IF IsNaN(a) \/ IsNaN(b) THEN NaN ELSE IF NLt(a, b) THEN b ELSE a

\* Math.min(a, b): NaN when an argument is NaN
MathMin(a, b) == IF IsNaN(a) \/ IsNaN(b) THEN NaN ELSE IF NLt(b, a) THEN b ELSE a

(***************************************************************************)
(* Array helpers with the semantics of the JavaScript methods used.        *)
(***************************************************************************)
\* y, with x evaluated first: a loop is unrolled as a recursion whose previous
\* iteration is evaluated before the current one is started
After(x, y) == IF x = x THEN y ELSE y

\* Array.prototype.slice(start, end) on a 1-based sequence; start and end
\* are 0-based JavaScript indices, negative ones count from the end
JsSlice(s, start, end) ==
    LET n == Len(s)
        from == IF start < 0 THEN (IF n + start < 0 THEN 0 ELSE n + start)
                ELSE (IF start > n THEN n ELSE start)
        to == IF end < 0 THEN (IF n + end < 0 THEN 0 ELSE n + end)
              ELSE (IF end > n THEN n ELSE end)
    IN  IF to <= from THEN <<>> ELSE SubSeq(s, from + 1, to)

\* [...new Set(s)]: first occurrences, in insertion order
RECURSIVE UniqueInOrder(_)
UniqueInOrder(s) ==
    IF s = <<>> THEN <<>>
    ELSE LET init == UniqueInOrder(SubSeq(s, 1, Len(s) - 1))
             x == s[Len(s)]
         IN  After(init, IF \E i \in 1..Len(init) : init[i] = x THEN init
                         ELSE Append(init, x))

\* the sort comparators of the service: "descending" is (a, b) => b - a
\* (line 291), "ascending" is (a, b) => a - b (line 306), "price" is
\* (a, b) => a.price - b.price (line 359); TRUE when a sorts strictly before b
Before(order, a, b) ==
    IF order = "descending" THEN NGt(a, b)
    ELSE IF order = "ascending" THEN NLt(a, b)
    ELSE NLt(a.price, b.price)

\* insertion of x into a sequence sorted under the comparator, after its
\* equals (Array.prototype.sort is stable)
RECURSIVE InsertSorted(_, _, _)
InsertSorted(s, x, order) ==
    IF s = <<>> THEN <<x>>
    ELSE IF Before(order, x, s[Len(s)])
         THEN Append(InsertSorted(SubSeq(s, 1, Len(s) - 1), x, order), s[Len(s)])
         ELSE Append(s, x)

\* Array.prototype.sort(comparator)
RECURSIVE SortBy(_, _)
SortBy(s, order) ==
    IF s = <<>> THEN <<>>
    ELSE LET init == SortBy(SubSeq(s, 1, Len(s) - 1), order)
         IN  After(init, InsertSorted(init, s[Len(s)], order))

(***************************************************************************)
(* Price points and candles (getHistoricalPrices, lines 104-128).          *)
(* A raw price point is [unixTime, value]; a raw field is a number, or     *)
(* Missing (absent, null or undefined), or NaN for a value that does not   *)
(* convert to a number (a non-numeric string).                             *)
(***************************************************************************)
Missing == <<0, -1>>

\* Number(x || 0)
NumberOrZero(x) == IF x = Missing THEN Num(0) ELSE x

\* makeCandle with the two points taken in the wrong order: the candle opens
\* at the current value and closes at the previous one
makeCandleSwapped(previous, current) ==
    LET value == NumberOrZero(current.value)
        prevValue == NumberOrZero(previous.value)
    IN  [timestamp |-> NumberOrZero(current.unixTime),
         open |-> value,
         close |-> prevValue,
         high |-> MathMax(value, prevValue),
         low |-> MathMin(value, prevValue),
         volume |-> Num(0)]

\* makeCandle taking the close alone as the high
makeCandleHighIsClose(previous, current) ==
    LET value == NumberOrZero(current.value)
        prevValue == NumberOrZero(previous.value)
    IN  [timestamp |-> NumberOrZero(current.unixTime),
         open |-> prevValue,
         close |-> value,
         high |-> value,
         low |-> MathMin(value, prevValue),
         volume |-> Num(0)]

\* the loop body of lines 110-124: one candle from two consecutive points
makeCandle(previous, current) ==
    LET value == NumberOrZero(current.value)
        prevValue == NumberOrZero(previous.value)
    IN  [timestamp |-> NumberOrZero(current.unixTime),
         open |-> prevValue,
         close |-> value,
         high |-> MathMax(value, prevValue),
         low |-> MathMin(value, prevValue),
         volume |-> Num(0)]

\* lines 105-128: "Convert price points to candles"
convertToCandles(items) ==
    IF Len(items) < 2 THEN <<>>
    ELSE [i \in 1..(Len(items) - 1) |-> makeCandle(items[i], items[i + 1])]

\* candles.map(c => c.close)
closes(candles) == [i \in 1..Len(candles) |-> candles[i].close]

(***************************************************************************)
(* Indicators.                                                             *)
(***************************************************************************)
\* candles[i].close - candles[i - 1].close for a 0-based index i
closeChange(candles, i) == NSub(candles[i + 1].close, candles[i].close)

\* One iteration of the first loop of calculateRSI (lines 209-216) on the
\* loop variables acc = <<gains, losses>>, for the 0-based index i
rsiSumStep(candles, acc, i) ==
    LET change == closeChange(candles, i)
    IN  IF NGe(change, Num(0))
        THEN <<NAdd(acc[1], change), acc[2]>>
        ELSE <<acc[1], NSub(acc[2], change)>>

\* the iterations i = lo..hi of that loop, in order (the range is halved
\* only to keep the recursion shallow)
RECURSIVE rsiSumLoop(_, _, _, _)
rsiSumLoop(candles, acc, lo, hi) ==
    After(acc, IF lo > hi THEN acc
               ELSE IF lo = hi THEN rsiSumStep(candles, acc, lo)
               ELSE LET mid == (lo + hi) \div 2
                    IN  rsiSumLoop(candles, rsiSumLoop(candles, acc, lo, mid), mid + 1, hi))

\* One iteration of the second loop of calculateRSI (lines 221-231) on the
\* loop variables avg = <<avgGain, avgLoss>>, for the 0-based index i
rsiSmoothStep(candles, avg, i) ==
    LET change == closeChange(candles, i)
    IN  IF NGe(change, Num(0))
        THEN <<NDiv(NAdd(NMul(avg[1], Num(13)), change), Num(14)),
               NDiv(NMul(avg[2], Num(13)), Num(14))>>
        ELSE <<NDiv(NMul(avg[1], Num(13)), Num(14)),
               NDiv(NSub(NMul(avg[2], Num(13)), change), Num(14))>>

\* the iterations i = lo..hi of that loop, in order
RECURSIVE rsiSmoothLoop(_, _, _, _)
rsiSmoothLoop(candles, avg, lo, hi) ==
    After(avg, IF lo > hi THEN avg
               ELSE IF lo = hi THEN rsiSmoothStep(candles, avg, lo)
               ELSE LET mid == (lo + hi) \div 2
                    IN  rsiSmoothLoop(candles, rsiSmoothLoop(candles, avg, lo, mid), mid + 1, hi))

\* calculateRSI asking for one candle more than the first average needs
calculateRSILateStart(candles, periods) ==
    IF Len(candles) < periods + 2 THEN Num(50)
    ELSE LET sums == rsiSumLoop(candles, <<Num(0), Num(0)>>, 1, periods)
             seed == <<NDiv(sums[1], Num(periods)), NDiv(sums[2], Num(periods))>>
             avg == rsiSmoothLoop(candles, seed, periods + 1, Len(candles) - 1)
         IN  IF avg[2] = Num(0) THEN Num(100)
             ELSE NSub(Num(100), NDiv(Num(100), NAdd(Num(1), NDiv(avg[1], avg[2]))))

calculateRSI(candles, periods) ==
    IF Len(candles) < periods + 1 THEN Num(50)
    ELSE LET sums == rsiSumLoop(candles, <<Num(0), Num(0)>>, 1, periods)
             seed == <<NDiv(sums[1], Num(periods)), NDiv(sums[2], Num(periods))>>
             avg == rsiSmoothLoop(candles, seed, periods + 1, Len(candles) - 1)
             avgGain == avg[1]
             avgLoss == avg[2]
         IN  IF avgLoss = Num(0) THEN Num(100)
             ELSE NSub(Num(100), NDiv(Num(100), NAdd(Num(1), NDiv(avgGain, avgLoss))))

\* One iteration of the loop of calculateEMAArray (lines 272-274) on the
\* array ema, for the 0-based index i
emaStep(values, periods, ema, i) ==
    LET multiplier == NDiv(Num(2), Num(periods + 1))
    IN  Append(ema, NAdd(NMul(NSub(values[i + 1], ema[i]), multiplier), ema[i]))

\* the iterations i = lo..hi of that loop, in order
RECURSIVE emaLoop(_, _, _, _, _)
emaLoop(values, periods, ema, lo, hi) ==
    After(ema, IF lo > hi THEN ema
               ELSE IF lo = hi THEN emaStep(values, periods, ema, lo)
               ELSE LET mid == (lo + hi) \div 2
                    IN  emaLoop(values, periods, emaLoop(values, periods, ema, lo, mid),
                                mid + 1, hi))

calculateEMAArray(values, periods) ==
    IF Len(values) < periods THEN values
    ELSE emaLoop(values, periods, <<values[1]>>, 1, Len(values) - 1)

calculateMACD(candles) ==
    LET prices == closes(candles)
        ema12 == calculateEMAArray(prices, 12)
        ema26 == calculateEMAArray(prices, 26)
        macdLine == NSub(ema12[Len(ema12)], ema26[Len(ema26)])
        macdHistory == [i \in 1..Len(prices) |-> NSub(ema12[i], ema26[i])]
        signalLine == calculateEMAArray(macdHistory, 9)
    IN  [value |-> macdLine,
         signal |-> signalLine[Len(signalLine)],
         histogram |-> NSub(macdLine, signalLine[Len(signalLine)])]

\* prices.reduce((a, b) => a + b, 0) over the positions lo..hi, in order
RECURSIVE sumLoop(_, _, _, _)
sumLoop(prices, acc, lo, hi) ==
    After(acc, IF lo > hi THEN acc
               ELSE IF lo = hi THEN NAdd(acc, prices[lo])
               ELSE LET mid == (lo + hi) \div 2
                    IN  sumLoop(prices, sumLoop(prices, acc, lo, mid), mid + 1, hi))

sumOf(prices) == sumLoop(prices, Num(0), 1, Len(prices))

calculateSMA(candles, periods) ==
    IF Len(candles) < periods THEN Num(0)
    ELSE LET prices == closes(JsSlice(candles, -periods, Len(candles)))
         IN  NDiv(sumOf(prices), Num(periods))

calculateEMA(candles, periods) ==
    LET prices == closes(candles)
        emaArray == calculateEMAArray(prices, periods)
    IN  emaArray[Len(emaArray)]

calculateIndicators(candles) ==
    [rsi |-> calculateRSI(candles, 14),
     macd |-> calculateMACD(candles),
     movingAverages |-> [sma20 |-> calculateSMA(candles, 20),
                         sma50 |-> calculateSMA(candles, 50),
                         sma200 |-> calculateSMA(candles, 200),
                         ema20 |-> calculateEMA(candles, 20)]]

(***************************************************************************)
(* Support and resistance levels.                                          *)
(***************************************************************************)
\* One iteration of the loop of findSupportLevels (lines 281-290) on the
\* array pivots, for the 0-based index i
\* supportStep looking at one neighbour on each side only
supportStepOneNeighbour(prices, pivots, i) ==
    IF /\ NLt(prices[i + 1], prices[i])
       /\ NLt(prices[i + 1], prices[i + 2])
    THEN Append(pivots, prices[i + 1])
    ELSE pivots

supportStep(prices, pivots, i) ==
    IF /\ NLt(prices[i + 1], prices[i])
       /\ NLt(prices[i + 1], prices[i - 1])
       /\ NLt(prices[i + 1], prices[i + 2])
       /\ NLt(prices[i + 1], prices[i + 3])
    THEN Append(pivots, prices[i + 1])
    ELSE pivots

\* the iterations i = lo..hi of that loop, in order
RECURSIVE supportLoop(_, _, _, _)
supportLoop(prices, pivots, lo, hi) ==
    After(pivots, IF lo > hi THEN pivots
                  ELSE IF lo = hi THEN supportStep(prices, pivots, lo)
                  ELSE LET mid == (lo + hi) \div 2
                       IN  supportLoop(prices, supportLoop(prices, pivots, lo, mid), mid + 1, hi))

\* One iteration of the loop of findResistanceLevels (lines 296-305)
resistanceStep(prices, pivots, i) ==
    IF /\ NGt(prices[i + 1], prices[i])
       /\ NGt(prices[i + 1], prices[i - 1])
       /\ NGt(prices[i + 1], prices[i + 2])
       /\ NGt(prices[i + 1], prices[i + 3])
    THEN Append(pivots, prices[i + 1])
    ELSE pivots

\* the iterations i = lo..hi of that loop, in order
RECURSIVE resistanceLoop(_, _, _, _)
resistanceLoop(prices, pivots, lo, hi) ==
    After(pivots, IF lo > hi THEN pivots
                  ELSE IF lo = hi THEN resistanceStep(prices, pivots, lo)
                  ELSE LET mid == (lo + hi) \div 2
                       IN  resistanceLoop(prices, resistanceLoop(prices, pivots, lo, mid),
                                          mid + 1, hi))

\* findSupportLevels without `[...new Set(pivots)]`: duplicates are kept
findSupportLevelsNoSet(prices) ==
    LET pivots == supportLoop(prices, <<>>, 2, Len(prices) - 3)
    IN  JsSlice(SortBy(pivots, "descending"), 0, 3)

findSupportLevels(prices) ==
    LET pivots == supportLoop(prices, <<>>, 2, Len(prices) - 3)
    IN  JsSlice(SortBy(UniqueInOrder(pivots), "descending"), 0, 3)

findResistanceLevels(prices) ==
    LET pivots == resistanceLoop(prices, <<>>, 2, Len(prices) - 3)
        sorted == SortBy(UniqueInOrder(pivots), "ascending")
    IN  JsSlice(sorted, -3, Len(sorted))

(***************************************************************************)
(* Trend, patterns, confidence, reasoning.                                 *)
(***************************************************************************)
\* the divisor of line 314: candles[candles.length - period].close
trendDivisor(candles, period) == candles[Len(candles) - period + 1].close

\* determineTrend comparing the change with >= 1 and <= -1
determineTrendInclusive(candles, period) ==
    IF Len(candles) < period THEN "neutral"
    ELSE LET sma == calculateSMA(candles, period)
             currentPrice == candles[Len(candles)].close
             base == trendDivisor(candles, period)
             priceChange == NMul(NDiv(NSub(currentPrice, base), base), Num(100))
         IN  IF NGt(currentPrice, sma) /\ NGe(priceChange, Num(1)) THEN "bullish"
             ELSE IF NLt(currentPrice, sma) /\ NGe(Num(-1), priceChange) THEN "bearish"
             ELSE "neutral"

determineTrend(candles, period) ==
    IF Len(candles) < period THEN "neutral"
    ELSE LET sma == calculateSMA(candles, period)
             currentPrice == candles[Len(candles)].close
             base == trendDivisor(candles, period)
             priceChange == NMul(NDiv(NSub(currentPrice, base), base), Num(100))
         IN  IF NGt(currentPrice, sma) /\ NGt(priceChange, Num(1)) THEN "bullish"
             ELSE IF NLt(currentPrice, sma) /\ NLt(priceChange, Num(-1)) THEN "bearish"
             ELSE "neutral"

\* recentLows of isDoubleBottom (lines 356-360): the two lowest lows of the
\* last 20 candles with their positions
lowestLows(candles) ==
    LET recent == JsSlice(candles, -20, Len(candles))
        lows == [i \in 1..Len(recent) |-> [price |-> recent[i].low, index |-> i - 1]]
    IN  JsSlice(SortBy(lows, "price"), 0, 2)

\* isDoubleBottom accepting two lows five positions apart
isDoubleBottomAtFive(candles) ==
    IF Len(candles) < 20 THEN FALSE
    ELSE LET recentLows == lowestLows(candles)
             indexDiff == AbsInt(recentLows[1].index - recentLows[2].index)
             priceDiff == NDiv(MathAbs(NSub(recentLows[1].price, recentLows[2].price)),
                               recentLows[1].price)
         IN  indexDiff > 4 /\ NLt(priceDiff, Ratio(2, 100))

isDoubleBottom(candles) ==
    IF Len(candles) < 20 THEN FALSE
    ELSE LET recentLows == lowestLows(candles)
             indexDiff == AbsInt(recentLows[1].index - recentLows[2].index)
             priceDiff == NDiv(MathAbs(NSub(recentLows[1].price, recentLows[2].price)),
                               recentLows[1].price)
         IN  indexDiff > 5 /\ NLt(priceDiff, Ratio(2, 100))

\* the peaks pushed by the loop of lines 385-389, for 0-based i < k
RECURSIVE peaksBelow(_, _)
peaksBelow(candles, k) ==
    IF k <= 1 THEN <<>>
    ELSE LET i == k    \* 1-based position of the 0-based index k - 1
             rest == peaksBelow(candles, k - 1)
         IN  IF NGt(candles[i].high, candles[i - 1].high) /\ NGt(candles[i].high, candles[i + 1].high)
             THEN Append(rest, [price |-> candles[i].high, index |-> i - 1])
             ELSE rest

findPeaks(candles) ==
    IF Len(candles) < 3 THEN <<>> ELSE peaksBelow(candles, Len(candles) - 1)

\* isHeadAndShoulders reading the three earliest peaks instead of the three
\* latest
isHeadAndShouldersFirstThree(candles) ==
    IF Len(candles) < 20 THEN FALSE
    ELSE LET peaks == findPeaks(JsSlice(candles, -20, Len(candles)))
         IN  IF Len(peaks) < 3 THEN FALSE
             ELSE LET leftShoulder == peaks[1]
                      head == peaks[2]
                      rightShoulder == peaks[3]
                  IN  /\ NGt(head.price, leftShoulder.price)
                      /\ NGt(head.price, rightShoulder.price)
                      /\ NLt(NDiv(MathAbs(NSub(leftShoulder.price, rightShoulder.price)),
                                  leftShoulder.price),
                             Ratio(5, 100))

isHeadAndShoulders(candles) ==
    IF Len(candles) < 20 THEN FALSE
    ELSE LET peaks == findPeaks(JsSlice(candles, -20, Len(candles)))
         IN  IF Len(peaks) < 3 THEN FALSE
             ELSE LET last3 == JsSlice(peaks, -3, Len(peaks))
                      leftShoulder == last3[1]
                      head == last3[2]
                      rightShoulder == last3[3]
                  IN  /\ NGt(head.price, leftShoulder.price)
                      /\ NGt(head.price, rightShoulder.price)
                      /\ NLt(NDiv(MathAbs(NSub(leftShoulder.price, rightShoulder.price)),
                                  leftShoulder.price),
                             Ratio(5, 100))

identifyPatterns(candles) ==
    LET lastPrice == candles[Len(candles)].close
        doubleBottom == IF isDoubleBottom(candles)
                        THEN <<[name |-> "Double Bottom",
                                confidence |-> Ratio(8, 10),
                                implication |-> "bullish",
                                priceTarget |-> NMul(lastPrice, Ratio(11, 10))]>>
                        ELSE <<>>
        headAndShoulders == IF isHeadAndShoulders(candles)
                            THEN <<[name |-> "Head and Shoulders",
                                    confidence |-> Ratio(7, 10),
                                    implication |-> "bearish",
                                    priceTarget |-> NMul(lastPrice, Ratio(9, 10))]>>
                            ELSE <<>>
    IN  doubleBottom \o headAndShoulders

\* confidence += w when cond holds
addIf(confidence, cond, w) == IF cond THEN NAdd(confidence, w) ELSE confidence

\* calculateTrendConfidence on a scale of 0 to 100
calculateTrendConfidencePercent(data) ==
    LET ind == data.indicators
        ma == ind.movingAverages
        c1 == addIf(Num(0), NGt(ind.rsi, Num(70)) \/ NLt(ind.rsi, Num(30)), Num(20))
        c2 == addIf(c1, NGt(MathAbs(ind.macd.histogram), MathAbs(ind.macd.signal)), Num(20))
        c3 == addIf(c2, NGt(ma.sma20, ma.sma50), Num(20))
        c4 == addIf(c3, NGt(ma.sma50, ma.sma200), Num(20))
        fifteenMinTrend == determineTrend(data.fifteenMin, 20)
        hourTrend == determineTrend(data.oneHour, 50)
        fourHourTrend == determineTrend(data.fourHour, 50)
        c5 == addIf(c4, fifteenMinTrend = hourTrend, Num(10))
        c6 == addIf(c5, hourTrend = fourHourTrend, Num(10))
    IN  MathMin(c6, Num(100))

\* calculateTrendConfidence comparing the 15-minute trend, instead of the
\* 1-hour trend, with the 4-hour trend
calculateTrendConfidenceSkewed(data) ==
    LET ind == data.indicators
        ma == ind.movingAverages
        c1 == addIf(Num(0), NGt(ind.rsi, Num(70)) \/ NLt(ind.rsi, Num(30)), Ratio(2, 10))
        c2 == addIf(c1, NGt(MathAbs(ind.macd.histogram), MathAbs(ind.macd.signal)), Ratio(2, 10))
        c3 == addIf(c2, NGt(ma.sma20, ma.sma50), Ratio(2, 10))
        c4 == addIf(c3, NGt(ma.sma50, ma.sma200), Ratio(2, 10))
        fifteenMinTrend == determineTrend(data.fifteenMin, 20)
        hourTrend == determineTrend(data.oneHour, 50)
        fourHourTrend == determineTrend(data.fourHour, 50)
        c5 == addIf(c4, fifteenMinTrend = hourTrend, Ratio(1, 10))
        c6 == addIf(c5, fifteenMinTrend = fourHourTrend, Ratio(1, 10))
    IN  MathMin(c6, Num(1))

calculateTrendConfidence(data) ==
    LET ind == data.indicators
        ma == ind.movingAverages
        c1 == addIf(Num(0), NGt(ind.rsi, Num(70)) \/ NLt(ind.rsi, Num(30)), Ratio(2, 10))
        c2 == addIf(c1, NGt(MathAbs(ind.macd.histogram), MathAbs(ind.macd.signal)), Ratio(2, 10))
        c3 == addIf(c2, NGt(ma.sma20, ma.sma50), Ratio(2, 10))
        c4 == addIf(c3, NGt(ma.sma50, ma.sma200), Ratio(2, 10))
        fifteenMinTrend == determineTrend(data.fifteenMin, 20)
        hourTrend == determineTrend(data.oneHour, 50)
        fourHourTrend == determineTrend(data.fourHour, 50)
        c5 == addIf(c4, fifteenMinTrend = hourTrend, Ratio(1, 10))
        c6 == addIf(c5, hourTrend = fourHourTrend, Ratio(1, 10))
    IN  MathMin(c6, Num(1))

\* an analyzeVolume whose insight carries the time of the analysis
analyzeVolumeStamped(candles) ==
    [trend |-> "unknown",
     significance |-> Num(0),
     unusualActivity |-> FALSE,
     insight |-> "Volume analysis not available at " \o ToString(now)]

analyzeVolume(candles) ==
    [trend |-> "unknown",
     significance |-> Num(0),
     unusualActivity |-> FALSE,
     insight |-> "Volume analysis not available for this token"]

\* reasons.join('. ')
RECURSIVE join(_)
join(reasons) ==
    IF reasons = <<>> THEN ""
    ELSE IF Len(reasons) = 1 THEN reasons[1]
    ELSE join(SubSeq(reasons, 1, Len(reasons) - 1)) \o ". " \o reasons[Len(reasons)]

\* trendReasons with the MACD sentence pushed before the RSI sentence
trendReasonsMacdFirst(shortTerm, mediumTerm, indicators) ==
    LET ma == indicators.movingAverages
        alignment ==
            IF shortTerm = mediumTerm
            THEN <<"Consistent " \o shortTerm \o " trend across timeframes">>
            ELSE <<"Mixed signals: " \o shortTerm \o " short-term, " \o mediumTerm
                   \o " medium-term">>
        rsiClause ==
            IF NGt(indicators.rsi, Num(70))
            THEN <<"Overbought RSI conditions suggest potential pullback">>
            ELSE IF NLt(indicators.rsi, Num(30))
            THEN <<"Oversold RSI conditions suggest potential bounce">>
            ELSE <<>>
        macdClause ==
            IF /\ NGt(indicators.macd.histogram, Num(0))
               /\ NGt(indicators.macd.histogram, indicators.macd.signal)
            THEN <<"MACD showing strong positive momentum">>
            ELSE IF /\ NLt(indicators.macd.histogram, Num(0))
                    /\ NLt(indicators.macd.histogram, indicators.macd.signal)
            THEN <<"MACD indicating negative momentum">>
            ELSE <<>>
        maClause ==
            IF NGt(ma.sma20, ma.sma50)
            THEN IF NGt(ma.sma50, ma.sma200)
                 THEN <<"All moving averages aligned bullishly (20 > 50 > 200)">>
                 ELSE <<"Short-term moving averages bullish but long-term resistance ahead">>
            ELSE IF NLt(ma.sma20, ma.sma50)
            THEN IF NLt(ma.sma50, ma.sma200)
                 THEN <<"All moving averages aligned bearishly (20 < 50 < 200)">>
                 ELSE <<"Short-term moving averages bearish but long-term support present">>
            ELSE <<>>
    IN  alignment \o macdClause \o rsiClause \o maClause

\* the reasons array of generateTrendReasoning before it is joined
trendReasons(shortTerm, mediumTerm, indicators) ==
    LET ma == indicators.movingAverages
        alignment ==
            IF shortTerm = mediumTerm
            THEN <<"Consistent " \o shortTerm \o " trend across timeframes">>
            ELSE <<"Mixed signals: " \o shortTerm \o " short-term, " \o mediumTerm
                   \o " medium-term">>
        rsiClause ==
            IF NGt(indicators.rsi, Num(70))
            THEN <<"Overbought RSI conditions suggest potential pullback">>
            ELSE IF NLt(indicators.rsi, Num(30))
            THEN <<"Oversold RSI conditions suggest potential bounce">>
            ELSE <<>>
        macdClause ==
            IF /\ NGt(indicators.macd.histogram, Num(0))
               /\ NGt(indicators.macd.histogram, indicators.macd.signal)
            THEN <<"MACD showing strong positive momentum">>
            ELSE IF /\ NLt(indicators.macd.histogram, Num(0))
                    /\ NLt(indicators.macd.histogram, indicators.macd.signal)
            THEN <<"MACD indicating negative momentum">>
            ELSE <<>>
        maClause ==
            IF NGt(ma.sma20, ma.sma50)
            THEN IF NGt(ma.sma50, ma.sma200)
                 THEN <<"All moving averages aligned bullishly (20 > 50 > 200)">>
                 ELSE <<"Short-term moving averages bullish but long-term resistance ahead">>
            ELSE IF NLt(ma.sma20, ma.sma50)
            THEN IF NLt(ma.sma50, ma.sma200)
                 THEN <<"All moving averages aligned bearishly (20 < 50 < 200)">>
                 ELSE <<"Short-term moving averages bearish but long-term support present">>
            ELSE <<>>
    IN  alignment \o rsiClause \o macdClause \o maClause

generateTrendReasoning(shortTerm, mediumTerm, indicators) ==
    join(trendReasons(shortTerm, mediumTerm, indicators))

getDefaultAnalysis ==
    [patterns |-> <<>>,
     indicators |-> [rsi |-> Num(50),
                     macd |-> [value |-> Num(0), signal |-> Num(0), histogram |-> Num(0)],
                     movingAverages |-> [sma20 |-> Num(0), sma50 |-> Num(0),
                                         sma200 |-> Num(0), ema20 |-> Num(0)]],
     supportResistance |-> [support |-> <<>>,
                            resistance |-> <<>>,
                            strongestSupport |-> Num(0),
                            strongestResistance |-> Num(0)],
     trend |-> [shortTerm |-> "neutral",
                mediumTerm |-> "neutral",
                confidence |-> Num(0),
                reasoning |-> "Insufficient data for analysis"],
     volumeAnalysis |-> [trend |-> "unknown",
                         significance |-> Num(0),
                         unusualActivity |-> FALSE,
                         insight |-> "Volume analysis not available for this token"]]

\* levels[i] || 0 for a 1-based position i (undefined, 0 and NaN are falsy)
\* levelOrZero taking the first level whatever the position asked for
levelOrZeroFirst(levels, i) ==
    IF Len(levels) = 0 THEN Num(0)
    ELSE IF IsNaN(levels[1]) THEN Num(0) ELSE levels[1]

levelOrZero(levels, i) ==
    IF i < 1 \/ i > Len(levels) THEN Num(0)
    ELSE IF IsNaN(levels[i]) THEN Num(0) ELSE levels[i]

\* data is [fifteenMin, oneHour, fourHour, indicators]
performAnalysis(data) ==
    LET prices == closes(data.oneHour)
        supportLevels == findSupportLevels(prices)
        resistanceLevels == findResistanceLevels(prices)
        shortTermTrend == determineTrend(data.fifteenMin, 20)
        mediumTermTrend == determineTrend(data.oneHour, 50)
    IN  [patterns |-> identifyPatterns(data.oneHour),
         indicators |-> data.indicators,
         supportResistance |-> [support |-> supportLevels,
                                resistance |-> resistanceLevels,
                                strongestSupport |-> levelOrZero(supportLevels, 1),
                                strongestResistance |->
                                    levelOrZero(resistanceLevels, Len(resistanceLevels))],
         trend |-> [shortTerm |-> shortTermTrend,
                    mediumTerm |-> mediumTermTrend,
                    confidence |-> calculateTrendConfidence(data),
                    reasoning |-> generateTrendReasoning(shortTermTrend, mediumTermTrend,
                                                         data.indicators)],
         volumeAnalysis |-> analyzeVolume(data.oneHour)]

(***************************************************************************)
(* The arrays that exist while performAnalysis runs: the three arrays of   *)
(* candles of its argument, and the arrays that its steps create and then  *)
(* reorder.  Array.prototype.sort is the only operation in these steps     *)
(* that changes the array it is applied to (push is applied to arrays the  *)
(* steps have just created); map, slice, reduce and the spread of a Set    *)
(* give new arrays or values.                                              *)
(***************************************************************************)
arraysGiven(data) ==
    [fifteenMin |-> data.fifteenMin, oneHour |-> data.oneHour,
     fourHour |-> data.fourHour, pivots |-> <<>>, lows |-> <<>>]

\* line 291: sort reorders the array made by [...new Set(pivots)]
sortSupportPivots(arrays) ==
    LET prices == closes(arrays.oneHour)
        made == UniqueInOrder(supportLoop(prices, <<>>, 2, Len(prices) - 3))
    IN  [arrays EXCEPT !.pivots = SortBy(made, "descending")]

\* line 306: sort reorders the array made by [...new Set(pivots)]
sortResistancePivots(arrays) ==
    LET prices == closes(arrays.oneHour)
        made == UniqueInOrder(resistanceLoop(prices, <<>>, 2, Len(prices) - 3))
    IN  [arrays EXCEPT !.pivots = SortBy(made, "ascending")]

\* the candles themselves put in the order of their lows
sortRecentLowsOfCandles(arrays) ==
    IF Len(arrays.oneHour) < 20 THEN arrays
    ELSE LET made == [i \in 1..Len(arrays.oneHour) |->
                         [price |-> arrays.oneHour[i].low, index |-> i]]
             order == SortBy(made, "price")
         IN  [arrays EXCEPT !.oneHour = [i \in 1..Len(order) |->
                                            arrays.oneHour[order[i].index]],
                            !.lows = JsSlice(order, -20, Len(order))]

\* lines 356-359: sort reorders the array made by candles.slice(-20).map(...)
sortRecentLows(arrays) ==
    IF Len(arrays.oneHour) < 20 THEN arrays
    ELSE LET recent == JsSlice(arrays.oneHour, -20, Len(arrays.oneHour))
             made == [i \in 1..Len(recent) |->
                         [price |-> recent[i].low, index |-> i - 1]]
         IN  [arrays EXCEPT !.lows = SortBy(made, "price")]

\* the arrays when performAnalysis returns: lines 162-163 and 178
arraysAfterAnalysis(data) ==
    sortRecentLows(sortResistancePivots(sortSupportPivots(arraysGiven(data))))

(***************************************************************************)
(* The zod schemas of types/technical.ts.  Every field of a modelled       *)
(* report has the right JavaScript type by construction, so what parse()   *)
(* can still reject is a NaN (z.number() refuses it, and accepts           *)
(* +-Infinity) and a value outside .min(0).max(1).                         *)
(***************************************************************************)
\* z.number()
zNumber(x) == ~IsNaN(x)

\* z.number().min(0).max(1)
zUnit(x) == zNumber(x) /\ NGe(x, Num(0)) /\ NGe(Num(1), x)

ChartPatternSchema(p) ==
    /\ zUnit(p.confidence)
    /\ p.implication \in {"bullish", "bearish", "neutral"}
    /\ zNumber(p.priceTarget)

TechnicalIndicatorsSchema(ind) ==
    /\ zNumber(ind.rsi)
    /\ zNumber(ind.macd.value) /\ zNumber(ind.macd.signal) /\ zNumber(ind.macd.histogram)
    /\ zNumber(ind.movingAverages.sma20) /\ zNumber(ind.movingAverages.sma50)
    /\ zNumber(ind.movingAverages.sma200) /\ zNumber(ind.movingAverages.ema20)

SupportResistanceSchema(sr) ==
    /\ \A i \in 1..Len(sr.support) : zNumber(sr.support[i])
    /\ \A i \in 1..Len(sr.resistance) : zNumber(sr.resistance[i])
    /\ zNumber(sr.strongestSupport)
    /\ zNumber(sr.strongestResistance)

VolumeAnalysisSchema(v) == zUnit(v.significance) /\ v.unusualActivity \in BOOLEAN

\* TRUE when TechnicalAnalysisSchema.parse(a) returns a, FALSE when it throws
TechnicalAnalysisSchema(a) ==
    /\ \A i \in 1..Len(a.patterns) : ChartPatternSchema(a.patterns[i])
    /\ TechnicalIndicatorsSchema(a.indicators)
    /\ SupportResistanceSchema(a.supportResistance)
    /\ a.trend.shortTerm \in {"bullish", "bearish", "neutral"}
    /\ a.trend.mediumTerm \in {"bullish", "bearish", "neutral"}
    /\ zUnit(a.trend.confidence)
    /\ VolumeAnalysisSchema(a.volumeAnalysis)

(***************************************************************************)
(* Bounds of the model.                                                    *)
(***************************************************************************)
\* analyzeTechnicals calls in one behaviour
MaxRequests == 2

\* clock advances in one behaviour
MaxTicks == 3

\* Date.now() when the service is constructed
StartTime == 5000

\* longest exhaustively enumerated price series (SpecEngine)
MaxShortLen == 6

\* most pivots of a generated zigzag series (SpecEngine)
MaxLevels == 5

\* most candles of a generated monotone series (SpecEngine)
MaxBars == 17

\* most candles of a generated flat series (SpecEngine)
MaxFlatLen == 201

\* widest distance between the two dips of a generated series (SpecEngine)
MaxGap == 8

\* most pivots of a generated zigzag series with an ending (SpecEngine)
MaxTurns == 4

\* the periods determineTrend is called with (lines 170-171, 413-415)
ShortPeriod == 20
MediumPeriod == 50

Timeframes == <<"15m", "1H", "4H">>

Requests == 1..MaxRequests

\* The addresses request r is made for: the first request asks for the first
\* address, a later one for an address already asked for or the next one.
AddressList == <<"So11", "Bonk">>

Addresses == {AddressList[i] : i \in 1..Len(AddressList)}

AddressChoice(r) == {AddressList[i] : i \in 1..(IF r < Len(AddressList) THEN r ELSE Len(AddressList))}

(***************************************************************************)
(* Price series.                                                           *)
(***************************************************************************)
\* data.data.items for a sequence of raw values, one point per interval
PointsOf(values) == [i \in 1..Len(values) |-> [unixTime |-> Num(i), value |-> values[i]]]

\* n points at level v followed by the points of tail
FlatThen(n, v, tail) == PointsOf([i \in 1..n |-> Num(v)] \o tail)

\* n points rising by one from v
Rising(n, v) == PointsOf([i \in 1..n |-> Num(v + i - 1)])

\* The payloads the price feed answers with in Spec, per timeframe: 21 rising
\* points (a bullish 15-minute trend); for the 1-hour series a single point
\* (no candle), a series whose last value is not a number, and 26 flat
\* points that end in a dip (enough candles for RSI and MACD, and a double
\* bottom); two points for the 4-hour series.
Feed(timeframe) ==
    IF timeframe = "15m"
    THEN {Rising(21, 100)}
    ELSE IF timeframe = "1H"
    THEN {PointsOf(<<Num(10)>>),
          PointsOf(<<Num(10), Num(12), NaN>>),
          FlatThen(26, 100, <<Num(99)>>)}
    ELSE {PointsOf(<<Num(20), Num(21)>>)}

(***************************************************************************)
(* The service (Spec).                                                     *)
(***************************************************************************)
CACHE_TTL == 5 * 60 * 1000

\* `ta_${address}`
cacheKey(address) == "ta_" \o address

CacheKeys == {cacheKey(a) : a \in Addresses}

\* new Throttle(3, 1000)
NewThrottle == [limit |-> 3, interval |-> 1000, running |-> 0, lastCall |-> 0]

\* one getHistoricalPrices call: where its Throttle.add / fetch stands, the
\* number of fetch() calls made for it, the Date.now() of line 26 when its
\* function was started, the promise it returned and what the promise was
\* fulfilled with
NewFetch ==
    [stage |-> "idle", wake |-> 0, calls |-> 0, startedAt |-> 0, promise |-> "pending",
     candles |-> <<>>, failed |-> FALSE]

\* one analyzeTechnicals call.  History kept for the properties: fresh (a
\* report for the address was stored less than CACHE_TTL before the call),
\* concurrent (the calls for the same address in flight when it started),
\* path (which return statement was taken) and at (the clock when the
\* computation ran).
NewRequest ==
    [st |-> "idle", address |-> "", promise |-> "pending", path |-> "none",
     fresh |-> FALSE, concurrent |-> {}, at |-> 0,
     fetch |-> [tf \in 1..3 |-> NewFetch],
     analysis |-> <<>>, result |-> <<>>]

NewEngine ==
    [family |-> "none", stage |-> "none", points |-> <<>>, candles |-> <<>>,
     support |-> <<>>, resistance |-> <<>>, rsi |-> <<>>, indicators |-> <<>>,
     patterns |-> <<>>, trend |-> <<>>,
     fifteenMin |-> <<>>, fourHour |-> <<>>, report |-> <<>>, periods |-> 0]

\* cacheHit with the age compared by <= : an entry of age CACHE_TTL is served
cacheHitInclusive(cached, t) == cached # <<>> /\ t - cached[1].timestamp <= CACHE_TTL

\* cached && Date.now() - cached.timestamp < this.CACHE_TTL (lines 23-24)
cacheHit(cached, t) == cached # <<>> /\ t - cached[1].timestamp < CACHE_TTL

\* Throttle.add from `this.running++` to the call of fn() (lines 25-29)
addRun(th, f, t) ==
    [throttle |-> [th EXCEPT !.running = @ + 1, !.lastCall = t],
     fetch |-> [f EXCEPT !.stage = "running", !.wake = 0, !.calls = @ + 1,
                         !.startedAt = t]]

\* Throttle.add from "Wait for interval" on (lines 18-23)
addInterval(th, f, t) ==
    LET timeToWait == th.lastCall + th.interval - t
    IN  IF timeToWait > 0
        THEN [throttle |-> th,
              fetch |-> [f EXCEPT !.stage = "interval", !.wake = t + timeToWait]]
        ELSE addRun(th, f, t)

\* getHistoricalPrices whose catch block throws the error on: the promise
\* is rejected
getHistoricalPricesRethrow(f) ==
    [f EXCEPT !.stage = "settled", !.wake = 0, !.promise = "rejected", !.candles = <<>>,
              !.failed = TRUE]

\* what the promise of getHistoricalPrices settles to when its try block
\* throws (lines 130-133): the error is logged and [] is returned
getHistoricalPricesCatch(f) ==
    [f EXCEPT !.stage = "settled", !.wake = 0, !.promise = "fulfilled", !.candles = <<>>,
              !.failed = TRUE]

\* a Throttle.add that throws when the limit is reached, where the source
\* waits: the call fails without a fetch
addEnterFailFast(th, f, t) ==
    IF th.running >= th.limit
    THEN [throttle |-> th, fetch |-> getHistoricalPricesCatch(f)]
    ELSE addInterval(th, f, t)

\* a Throttle.add whose loop tests `running > limit`
addEnterOffByOne(th, f, t) ==
    IF th.running > th.limit
    THEN [throttle |-> th, fetch |-> [f EXCEPT !.stage = "gate", !.wake = t + 50]]
    ELSE addInterval(th, f, t)

\* Throttle.add from the test of its while loop on (lines 14-16)
addEnter(th, f, t) ==
    IF th.running >= th.limit
    THEN [throttle |-> th, fetch |-> [f EXCEPT !.stage = "gate", !.wake = t + 50]]
    ELSE addInterval(th, f, t)

\* Promise.all over the three getHistoricalPrices promises
promiseAll(fetches) ==
    IF \E i \in 1..3 : fetches[i].promise = "rejected" THEN "rejected"
    ELSE IF \A i \in 1..3 : fetches[i].promise = "fulfilled" THEN "fulfilled"
    ELSE "pending"

\* the test of line 35 without the 4-hour series
insufficientDataNoFourHour(fifteenMin, oneHour, fourHour) ==
    Len(oneHour) = 0 \/ Len(fifteenMin) = 0

\* !oneHour.length || !fifteenMin.length || !fourHour.length (line 35)
insufficientData(fifteenMin, oneHour, fourHour) ==
    Len(oneHour) = 0 \/ Len(fifteenMin) = 0 \/ Len(fourHour) = 0

\* a catch block that throws the error on: the promise of analyzeTechnicals
\* is rejected
analyzeTechnicalsRethrow(request) ==
    [request EXCEPT !.st = "done", !.promise = "rejected", !.path = "rejected"]

\* the catch block of analyzeTechnicals (lines 60-63)
analyzeTechnicalsCatch(request) ==
    [request EXCEPT !.st = "done", !.promise = "fulfilled", !.path = "default-error",
                    !.result = <<getDefaultAnalysis>>]

Init ==
    /\ now = StartTime
    /\ ticks = 0
    /\ throttle = NewThrottle
    /\ cache = [k \in CacheKeys |-> <<>>]
    /\ req = [r \in Requests |-> NewRequest]
    /\ stores = {}
    /\ cleared = FALSE
    /\ engine = NewEngine

\* analyzeTechnicals(address) up to its first await (lines 19-33): the cache
\* lookup and, on a miss, the three getHistoricalPrices calls, each running
\* into Throttle.add as far as it goes without suspending
Start(r, address) ==
    /\ req[r].st = "idle"
    /\ \A q \in Requests : q < r => req[q].st # "idle"
    /\ LET key == cacheKey(address)
           cached == cache[key]
           fresh == \E s \in stores : s.key = key /\ now - s.at < CACHE_TTL
           concurrent == {q \in Requests : /\ req[q].address = address
                                           /\ req[q].st \in {"fetching", "analysed"}}
           a1 == addEnter(throttle, NewFetch, now)
           a2 == addEnter(a1.throttle, NewFetch, now)
           a3 == addEnter(a2.throttle, NewFetch, now)
       IN  IF cacheHit(cached, now)
           THEN /\ req' = [req EXCEPT ![r] = [@ EXCEPT !.st = "done", !.address = address,
                                                      !.promise = "fulfilled",
                                                      !.fresh = fresh, !.path = "hit",
                                                      !.concurrent = concurrent,
                                                      !.result = <<cached[1].data>>]]
                /\ UNCHANGED throttle
           ELSE /\ req' = [req EXCEPT ![r] = [@ EXCEPT !.st = "fetching",
                                                      !.address = address, !.fresh = fresh,
                                                      !.concurrent = concurrent,
                                                      !.fetch = <<a1.fetch, a2.fetch, a3.fetch>>]]
                /\ throttle' = a3.throttle
    /\ UNCHANGED <<now, ticks, cache, stores, cleared, engine>>

\* the 50 ms timer of the while loop of Throttle.add fires (lines 14-16)
GateWake(r, tf) ==
    /\ req[r].fetch[tf].stage = "gate"
    /\ now >= req[r].fetch[tf].wake
    /\ LET a == addEnter(throttle, req[r].fetch[tf], now)
       IN  /\ req' = [req EXCEPT ![r].fetch[tf] = a.fetch]
           /\ throttle' = a.throttle
    /\ UNCHANGED <<now, ticks, cache, stores, cleared, engine>>

\* the interval timer of Throttle.add fires (lines 22-29)
IntervalWake(r, tf) ==
    /\ req[r].fetch[tf].stage = "interval"
    /\ now >= req[r].fetch[tf].wake
    /\ LET a == addRun(throttle, req[r].fetch[tf], now)
       IN  /\ req' = [req EXCEPT ![r].fetch[tf] = a.fetch]
           /\ throttle' = a.throttle
    /\ UNCHANGED <<now, ticks, cache, stores, cleared, engine>>

\* fetch() settles: the finally block of Throttle.add releases the slot
\* (line 32); a network error or a non-OK status (lines 92-94) ends in the
\* catch block, an OK response goes on to response.json() (line 96)
FetchSettle(r, tf, outcome) ==
    /\ req[r].fetch[tf].stage = "running"
    /\ throttle' = [throttle EXCEPT !.running = @ - 1]
    /\ req' = [req EXCEPT ![r].fetch[tf] =
                   IF outcome = "ok" THEN [@ EXCEPT !.stage = "body"]
                   ELSE getHistoricalPricesCatch(@)]
    /\ UNCHANGED <<now, ticks, cache, stores, cleared, engine>>

\* response.json() settles (lines 96-128): it rejects, or the payload has
\* not the expected shape (an empty list is returned, lines 99-102), or an
\* element of items is not an object (the loop throws), or items is a list
\* of price points
BodySettle(r, tf, outcome, items) ==
    /\ req[r].fetch[tf].stage = "body"
    /\ req' = [req EXCEPT ![r].fetch[tf] =
                   IF outcome \in {"reject", "throws"} THEN getHistoricalPricesCatch(@)
                   ELSE IF outcome = "invalid"
                   THEN [@ EXCEPT !.stage = "settled", !.promise = "fulfilled",
                                  !.candles = <<>>, !.failed = TRUE]
                   ELSE [@ EXCEPT !.stage = "settled", !.promise = "fulfilled",
                                  !.candles = convertToCandles(items)]]
    /\ UNCHANGED <<now, ticks, throttle, cache, stores, cleared, engine>>

\* Analyse keeping the default report of an empty series in the cache
AnalyseStoringDefault(r) ==
    /\ req[r].st = "fetching"
    /\ promiseAll(req[r].fetch) # "pending"
    /\ LET fifteenMin == req[r].fetch[1].candles
           oneHour == req[r].fetch[2].candles
           fourHour == req[r].fetch[3].candles
           key == cacheKey(req[r].address)
       IN  IF promiseAll(req[r].fetch) = "rejected"
           THEN /\ req' = [req EXCEPT ![r] = analyzeTechnicalsCatch(@)]
                /\ UNCHANGED <<cache, stores>>
           ELSE IF insufficientData(fifteenMin, oneHour, fourHour)
           THEN /\ req' = [req EXCEPT ![r] = [@ EXCEPT !.st = "done", !.promise = "fulfilled",
                                                      !.path = "default-empty",
                                                      !.result = <<getDefaultAnalysis>>]]
                /\ cache' = [cache EXCEPT ![key] = <<[data |-> getDefaultAnalysis,
                                                      timestamp |-> now]>>]
                /\ UNCHANGED stores
           ELSE /\ req' = [req EXCEPT ![r] = [@ EXCEPT !.st = "analysed", !.at = now,
                              !.analysis =
                              <<performAnalysis([fifteenMin |-> fifteenMin,
                                                 oneHour |-> oneHour,
                                                 fourHour |-> fourHour,
                                                 indicators |-> calculateIndicators(oneHour)])>>]]
                /\ UNCHANGED <<cache, stores>>
    /\ UNCHANGED <<now, ticks, throttle, cleared, engine>>

\* Promise.all has settled (lines 29-49): the catch block on a rejection,
\* the default report when a series is empty, else the indicators and
\* performAnalysis, whose result is awaited
Analyse(r) ==
    /\ req[r].st = "fetching"
    /\ promiseAll(req[r].fetch) # "pending"
    /\ LET fifteenMin == req[r].fetch[1].candles
           oneHour == req[r].fetch[2].candles
           fourHour == req[r].fetch[3].candles
       IN  IF promiseAll(req[r].fetch) = "rejected"
           THEN req' = [req EXCEPT ![r] = analyzeTechnicalsCatch(@)]
           ELSE IF insufficientData(fifteenMin, oneHour, fourHour)
           THEN req' = [req EXCEPT ![r] = [@ EXCEPT !.st = "done", !.promise = "fulfilled",
                                                   !.path = "default-empty",
                                                   !.result = <<getDefaultAnalysis>>]]
           ELSE req' = [req EXCEPT ![r] = [@ EXCEPT !.st = "analysed", !.at = now,
                           !.analysis =
                           <<performAnalysis([fifteenMin |-> fifteenMin,
                                              oneHour |-> oneHour,
                                              fourHour |-> fourHour,
                                              indicators |-> calculateIndicators(oneHour)])>>]]
    /\ UNCHANGED <<now, ticks, throttle, cache, stores, cleared, engine>>

\* the awaited analysis is validated, cached and returned (lines 51-59), or
\* the schema throws and the catch block returns the default (lines 60-63)
Validate(r) ==
    /\ req[r].st = "analysed"
    /\ LET analysis == req[r].analysis[1]
           key == cacheKey(req[r].address)
       IN  IF TechnicalAnalysisSchema(analysis)
           THEN /\ cache' = [cache EXCEPT ![key] = <<[data |-> analysis, timestamp |-> now]>>]
                /\ stores' = stores \cup {[key |-> key, at |-> now]}
                /\ req' = [req EXCEPT ![r] = [@ EXCEPT !.st = "done", !.promise = "fulfilled",
                                                      !.path = "computed",
                                                      !.result = <<analysis>>]]
           ELSE /\ req' = [req EXCEPT ![r] = analyzeTechnicalsCatch(@)]
                /\ UNCHANGED <<cache, stores>>
    /\ UNCHANGED <<now, ticks, throttle, cleared, engine>>

\* clearCache() (lines 522-524), called when the cache holds an entry
ClearCache ==
    /\ \E k \in CacheKeys : cache[k] # <<>>
    /\ cache' = [k \in CacheKeys |-> <<>>]
    /\ cleared' = TRUE
    /\ UNCHANGED <<now, ticks, throttle, req, stores, engine>>

\* the timers that are armed
Wakes ==
    {req[r].fetch[tf].wake : r \in Requests, tf \in 1..3} \ {0}

\* The instants the clock is advanced to: the next timer, the end of the
\* throttle interval, and the last millisecond inside and the first
\* millisecond outside the TTL of a cache entry.  A timer fires when it is
\* due: the clock does not pass it.
Instants ==
    Wakes
    \cup {throttle.lastCall + throttle.interval}
    \cup UNION {{cache[k][1].timestamp + CACHE_TTL - 1, cache[k][1].timestamp + CACHE_TTL} :
                k \in {c \in CacheKeys : cache[c] # <<>>}}

Tick(t) ==
    /\ ticks < MaxTicks
    /\ t > now
    /\ \A w \in Wakes : t <= w
    /\ now' = t
    /\ ticks' = ticks + 1
    /\ UNCHANGED <<throttle, cache, req, stores, cleared, engine>>

Next ==
    \/ \E r \in Requests : \E a \in AddressChoice(r) : Start(r, a)
    \/ \E r \in Requests, tf \in 1..3 : GateWake(r, tf)
    \/ \E r \in Requests, tf \in 1..3 : IntervalWake(r, tf)
    \/ \E r \in Requests, tf \in 1..3, o \in {"reject", "notok", "ok"} : FetchSettle(r, tf, o)
    \/ \E r \in Requests, tf \in 1..3 :
          \/ \E o \in {"reject", "throws", "invalid"} : BodySettle(r, tf, o, <<>>)
          \/ \E items \in Feed(Timeframes[tf]) : BodySettle(r, tf, "items", items)
    \/ \E r \in Requests : Analyse(r)
    \/ \E r \in Requests : Validate(r)
    \/ ClearCache
    \/ \E t \in Instants : Tick(t)

Spec == Init /\ [][Next]_vars

(***************************************************************************)
(* The computation pipeline on its own (SpecEngine).                       *)
(***************************************************************************)
\* what a price point's value can be: absent, not a number, a number
RawValues == {Missing, NaN, Num(1), Num(2)}

RECURSIVE SeqsUpTo(_, _)
SeqsUpTo(S, n) ==
    IF n = 0 THEN {<<>>}
    ELSE LET shorter == SeqsUpTo(S, n - 1)
         IN  shorter \cup {Append(q, e) : q \in {w \in shorter : Len(w) = n - 1}, e \in S}

\* every series of at most MaxShortLen points over RawValues
ShortSeries == {PointsOf(values) : values \in SeqsUpTo(RawValues, MaxShortLen)}

\* the turning points of a zigzag: below and above the level 5 it returns to
Levels == {1, 2, 3, 4, 6}

\* a series that sits at 5 and visits the given levels, two points apart, so
\* that each level below 5 is a local low and each level above a local high
Zigzag(levels) ==
    PointsOf([i \in 1..(3 * Len(levels) + 3) |->
                 IF i > 1 /\ (i - 1) % 3 = 0 THEN Num(levels[(i - 1) \div 3]) ELSE Num(5)])

ZigzagSeries == {Zigzag(levels) : levels \in SeqsUpTo(Levels, MaxLevels) \ {<<>>}}

\* the sizes of the moves of a monotone series, repeated in a cycle of three
StepSizes == {1, 2, 3}

\* how far a monotone series has moved after `count` steps of the cycle
Travelled(cycle, count) ==
    (count \div 3) * (cycle[1] + cycle[2] + cycle[3])
    + (IF count % 3 >= 1 THEN cycle[1] ELSE 0)
    + (IF count % 3 = 2 THEN cycle[2] ELSE 0)

\* a series of `size` points that leaves 100 upwards or downwards and never
\* turns
Monotone(upwards, size, cycle) ==
    PointsOf([i \in 1..size |->
                 Num(IF upwards THEN 100 + Travelled(cycle, i - 1)
                                ELSE 100 - Travelled(cycle, i - 1))])

MonotoneSeries ==
    {Monotone(upwards, size, cycle) :
        upwards \in BOOLEAN, size \in 1..(MaxBars + 1),
        cycle \in [1..3 -> StepSizes]}

\* the numbers of candles the indicators ask for: EMA 12, RSI 14 + 1, SMA and
\* EMA 20, EMA 26, SMA 50, SMA 200
IndicatorWindows == {12, 15, 20, 26, 50, 200}

\* the numbers of candles of the flat series: a few, and the ones next to a
\* window of an indicator
FlatLengths ==
    {size \in 1..MaxFlatLen :
        size <= 3 \/ \E window \in IndicatorWindows : size \in (window - 1)..(window + 1)}

\* how a flat series ends: flat, or with a last step down or up
FlatTails == {<<>>, <<Num(99)>>, <<Num(101)>>}

\* series at 100, with the last point possibly off
FlatSeries ==
    {FlatThen(size + 1 - Len(tail), 100, tail) : size \in FlatLengths, tail \in FlatTails}

\* the depths of a dip below the level 100
DipLevels == {90, 91, 95}

\* `size` candles at 100 whose closes dip to low1 at the position i of the
\* window of the last 20 candles (counted from 0), and to low2 at i + gap
Dips(size, i, gap, low1, low2) ==
    PointsOf([k \in 1..(size + 1) |->
                 IF k = size - 20 + i + 2 THEN Num(low1)
                 ELSE IF k = size - 20 + i + gap + 2 THEN Num(low2)
                 ELSE Num(100)])

DipSeries ==
    {Dips(size, i, gap, low1, low2) :
        size \in {20, 22}, i \in 0..18, gap \in 1..MaxGap,
        low1 \in DipLevels, low2 \in DipLevels}

\* where a shaped series leaves the level 100, as positions among its 21
\* points (some apart, some adjacent, and the last point)
ShapeSpots == {4, 8, 9, 13, 17, 18, 21}

\* the levels a shaped series visits: a shallow dip, none, a shoulder, a head
ShapeLevels == {99, 100, 104, 110}

\* 20 candles at 100 with the given level at each spot
Shape(levelAt) ==
    PointsOf([k \in 1..21 |-> IF k \in ShapeSpots THEN Num(levelAt[k]) ELSE Num(100)])

ShapeSeries == {Shape(levelAt) : levelAt \in [ShapeSpots -> ShapeLevels]}

\* the turning points of a zigzag with an ending: two below, one of them 0,
\* and four above 5
TurnLevels == {0, 4, 6, 7, 8, 9}

\* where the last close of such a series lies: at or below every turning
\* point, or at the level 5
Endings == {0, 5}

\* a zigzag followed by one more point
ZigzagThen(levels, ending) ==
    PointsOf([i \in 1..(3 * Len(levels) + 4) |->
                 IF i = 3 * Len(levels) + 4 THEN Num(ending)
                 ELSE IF i > 1 /\ (i - 1) % 3 = 0 THEN Num(levels[(i - 1) \div 3])
                 ELSE Num(5)])

EndedSeries ==
    {ZigzagThen(levels, ending) :
        levels \in SeqsUpTo(TurnLevels, MaxTurns) \ {<<>>}, ending \in Endings}

\* the first close, the closes between, and the last close of a series
\* whose trend is determined
FirstCloses == {0, 90, 100}
MiddleCloses == {0, 100, 110}
LastCloses == {0, 98, 99, 100, 101, 102}

\* `size` candles: closes `first`, then `middle` throughout, then `last`
Trending(size, first, middle, last) ==
    PointsOf([k \in 1..(size + 1) |->
                 IF k <= 2 THEN Num(first)
                 ELSE IF k = size + 1 THEN Num(last) ELSE Num(middle)])

\* series of one candle fewer than, exactly, and one candle more than a period
TrendSeries ==
    {Trending(size, first, middle, last) :
        size \in {period + offset : period \in {ShortPeriod, MediumPeriod}, offset \in {-1, 0, 1}},
        first \in FirstCloses, middle \in MiddleCloses, last \in LastCloses}

\* Falling: n points falling by one from v
Falling(n, v) == PointsOf([i \in 1..n |-> Num(v - i + 1)])

\* candles of the 15-minute series: too few for a trend, and a bullish trend
FifteenMinChoices == {convertToCandles(Rising(3, 100)), convertToCandles(Rising(21, 100))}

\* points of the 1-hour series: too few for a trend, a bullish and a bearish
\* trend
HourChoices == {Rising(3, 100), Rising(51, 100), Falling(51, 200)}

\* candles of the 4-hour series: too few for a trend, and a bullish trend
FourHourChoices == {convertToCandles(Rising(3, 100)), convertToCandles(Rising(51, 100))}

\* the indicator values handed to the analysis: RSI at and beyond the marks
\* 30 and 70, a histogram and a signal of either sign with the signal the
\* larger or the smaller, and moving averages in every order
RsiChoices == {Num(25), Num(30), Num(50), Num(70), Num(75)}
HistogramChoices == {Num(-1), Num(0), Num(1)}
SignalChoices == {Num(-2), Num(-1), Num(0), Num(1), Num(2)}
AverageChoices == {Num(1), Num(2), Num(3)}

IndicatorChoices ==
    {[rsi |-> rsi,
      macd |-> [value |-> NAdd(histogram, signal), signal |-> signal,
                histogram |-> histogram],
      movingAverages |-> [sma20 |-> sma20, sma50 |-> sma50, sma200 |-> sma200,
                          ema20 |-> sma20]] :
        rsi \in RsiChoices, histogram \in HistogramChoices, signal \in SignalChoices,
        sma20 \in AverageChoices, sma50 \in AverageChoices, sma200 \in AverageChoices}

\* indicator values that fire no signal
NeutralIndicators ==
    [rsi |-> Num(50),
     macd |-> [value |-> Num(0), signal |-> Num(0), histogram |-> Num(0)],
     movingAverages |-> [sma20 |-> Num(1), sma50 |-> Num(1), sma200 |-> Num(1),
                         ema20 |-> Num(1)]]

\* the series whose patterns are identified
PatternSeries == FlatSeries \cup DipSeries \cup ShapeSeries \cup TrendSeries

InitEngine ==
    /\ now = StartTime
    /\ ticks = 0
    /\ throttle = NewThrottle
    /\ cache = [k \in CacheKeys |-> <<>>]
    /\ req = [r \in Requests |-> NewRequest]
    /\ stores = {}
    /\ cleared = FALSE
    /\ \/ \E points \in ShortSeries :
             engine = [NewEngine EXCEPT !.family = "short", !.stage = "points",
                                        !.points = points]
       \/ \E points \in ZigzagSeries :
             engine = [NewEngine EXCEPT !.family = "zigzag", !.stage = "points",
                                        !.points = points]
       \/ \E points \in MonotoneSeries :
             engine = [NewEngine EXCEPT !.family = "monotone", !.stage = "points",
                                        !.points = points]
       \/ \E points \in FlatSeries :
             engine = [NewEngine EXCEPT !.family = "flat", !.stage = "points",
                                        !.points = points]
       \/ \E points \in DipSeries :
             engine = [NewEngine EXCEPT !.family = "dips", !.stage = "points",
                                        !.points = points]
       \/ \E points \in EndedSeries :
             engine = [NewEngine EXCEPT !.family = "ended", !.stage = "points",
                                        !.points = points,
                                        !.fifteenMin = convertToCandles(Rising(3, 100)),
                                        !.fourHour = convertToCandles(Rising(3, 100)),
                                        !.indicators = NeutralIndicators]
       \/ \E points \in TrendSeries :
             engine = [NewEngine EXCEPT !.family = "trend", !.stage = "points",
                                        !.points = points]
       \/ \E points \in HourChoices, fifteenMin \in FifteenMinChoices,
             fourHour \in FourHourChoices, indicators \in IndicatorChoices :
             engine = [NewEngine EXCEPT !.family = "signals", !.stage = "points",
                                        !.points = points,
                                        !.fifteenMin = fifteenMin,
                                        !.fourHour = fourHour,
                                        !.indicators = indicators]
       \/ \E points \in ShapeSeries :
             engine = [NewEngine EXCEPT !.family = "shape", !.stage = "points",
                                        !.points = points]

\* getHistoricalPrices, lines 105-128, on the 1-hour payload
EngineConvert ==
    /\ engine.stage = "points"
    /\ engine' = [engine EXCEPT !.stage = "candles",
                                 !.candles = convertToCandles(engine.points)]
    /\ UNCHANGED serviceVars

\* performAnalysis, lines 150-152: the levels of the 1-hour closes
EngineLevels ==
    /\ engine.stage = "candles"
    /\ Len(engine.candles) > 0
    /\ LET prices == closes(engine.candles)
       IN  engine' = [engine EXCEPT !.stage = "levels",
                                    !.support = findSupportLevels(prices),
                                    !.resistance = findResistanceLevels(prices)]
    /\ UNCHANGED serviceVars

\* calculateIndicators, line 138: the RSI of the 1-hour candles
EngineRSI ==
    /\ engine.stage = "candles"
    /\ engine.family \in {"short", "zigzag", "monotone"}
    /\ engine' = [engine EXCEPT !.stage = "rsi",
                                 !.rsi = calculateRSI(engine.candles, 14)]
    /\ UNCHANGED serviceVars

\* analyzeTechnicals, lines 36-47: the indicators of the 1-hour candles, which
\* are computed once none of the series is empty
EngineIndicators ==
    /\ engine.stage = "candles"
    /\ engine.family \in {"short", "flat"}
    /\ Len(engine.candles) > 0
    /\ engine' = [engine EXCEPT !.stage = "indicators",
                                 !.indicators = calculateIndicators(engine.candles)]
    /\ UNCHANGED serviceVars

\* performAnalysis, line 166: the patterns of the 1-hour candles
EnginePatterns ==
    /\ engine.stage = "candles"
    /\ engine.family \in {"flat", "dips", "shape", "trend"}
    /\ Len(engine.candles) > 0
    /\ engine' = [engine EXCEPT !.stage = "patterns",
                                 !.patterns = identifyPatterns(engine.candles)]
    /\ UNCHANGED serviceVars

\* performAnalysis, lines 170-171, and calculateTrendConfidence, lines
\* 413-415: the trend of a series of candles over one of the two periods
EngineTrend ==
    /\ engine.stage = "candles"
    /\ engine.family \in {"flat", "trend"}
    /\ \E period \in {ShortPeriod, MediumPeriod} :
           engine' = [engine EXCEPT !.stage = "trend",
                                    !.trend = [period |-> period,
                                               value |-> determineTrend(engine.candles,
                                                                        period)]]
    /\ UNCHANGED serviceVars

\* analyzeTechnicals, lines 43-48: performAnalysis on the three series of
\* candles and the indicators
EngineAnalyse ==
    /\ engine.stage = "candles"
    /\ engine.family \in {"signals", "ended"}
    /\ LET data == [fifteenMin |-> engine.fifteenMin,
                    oneHour |-> engine.candles,
                    fourHour |-> engine.fourHour,
                    indicators |-> engine.indicators]
           arrays == arraysAfterAnalysis(data)
       IN  engine' = [engine EXCEPT !.stage = "report",
                                    !.report = performAnalysis(data),
                                    !.fifteenMin = arrays.fifteenMin,
                                    !.candles = arrays.oneHour,
                                    !.fourHour = arrays.fourHour]
    /\ UNCHANGED serviceVars

NextEngine ==
    \/ EngineConvert
    \/ EngineLevels
    \/ EngineRSI
    \/ EngineIndicators
    \/ EnginePatterns
    \/ EngineTrend
    \/ EngineAnalyse

SpecEngine == InitEngine /\ [][NextEngine]_vars

(***************************************************************************)
(* Properties.                                                             *)
(***************************************************************************)
SeqToSet(s) == {s[i] : i \in 1..Len(s)}

\* the calls that have started, that have returned, and that missed the cache
Started == {r \in Requests : req[r].st # "idle"}

Done == {r \in Requests : req[r].st = "done"}

Missed == {r \in Started : req[r].path # "hit"}

\* fetch() calls made for request r
FetchCalls(r) == req[r].fetch[1].calls + req[r].fetch[2].calls + req[r].fetch[3].calls

\* the three bar sequences request r obtained
Bars(r) == [tf \in 1..3 |-> req[r].fetch[tf].candles]

\* C1: analyzeTechnicals never rejects: whatever the three fetches do
\* (network error, non-OK status, malformed payload) and whatever fails in
\* the computation or the validation, a call that has returned has resolved
\* to a structurally valid report, and when one of its fetches failed that
\* report is the default report.
C1_AlwaysResolvesToReport ==
    \A r \in Requests :
        /\ req[r].promise # "rejected"
        /\ r \in Done =>
              /\ req[r].promise = "fulfilled"
              /\ Len(req[r].result) = 1
              /\ TechnicalAnalysisSchema(req[r].result[1])
              /\ (\E tf \in 1..3 : req[r].fetch[tf].failed) =>
                    req[r].result[1] = getDefaultAnalysis

\* a call has returned the default report after its 15-minute fetch failed
\* and the other two delivered candles
C1_Witness ==
    \E r \in Done :
        /\ req[r].fetch[1].failed
        /\ Len(req[r].fetch[2].candles) > 0 /\ ~req[r].fetch[2].failed
        /\ Len(req[r].fetch[3].candles) > 0 /\ ~req[r].fetch[3].failed
        /\ req[r].result = <<getDefaultAnalysis>>

\* the default report, value by value
DefaultReport ==
    [patterns |-> <<>>,
     indicators |-> [rsi |-> <<50, 1>>,
                     macd |-> [value |-> <<0, 1>>, signal |-> <<0, 1>>, histogram |-> <<0, 1>>],
                     movingAverages |-> [sma20 |-> <<0, 1>>, sma50 |-> <<0, 1>>,
                                         sma200 |-> <<0, 1>>, ema20 |-> <<0, 1>>]],
     supportResistance |-> [support |-> <<>>, resistance |-> <<>>,
                            strongestSupport |-> <<0, 1>>, strongestResistance |-> <<0, 1>>],
     trend |-> [shortTerm |-> "neutral", mediumTerm |-> "neutral", confidence |-> <<0, 1>>,
                reasoning |-> "Insufficient data for analysis"],
     volumeAnalysis |-> [trend |-> "unknown", significance |-> <<0, 1>>,
                         unusualActivity |-> FALSE,
                         insight |-> "Volume analysis not available for this token"]]

\* C2: when at least one of the three bar sequences a request obtained is
\* empty, the report it returns is the default report exactly (rsi 50, macd
\* 0/0/0, moving averages 0, no patterns, no levels, strongest levels 0,
\* neutral trends, confidence 0, "Insufficient data for analysis", the
\* volume placeholder), whatever the other two sequences hold.
C2_EmptySeriesGivesDefault ==
    \A r \in Done \cap Missed :
        (\E tf \in 1..3 : Len(req[r].fetch[tf].candles) = 0) =>
            req[r].result = <<DefaultReport>>

\* a call has returned the default report with 20 fifteen-minute candles,
\* 26 one-hour candles and no four-hour candle
C2_Witness ==
    \E r \in Done :
        /\ Len(req[r].fetch[1].candles) = 20
        /\ Len(req[r].fetch[2].candles) = 26
        /\ Len(req[r].fetch[3].candles) = 0
        /\ req[r].fetch[3].stage = "settled"
        /\ req[r].result = <<DefaultReport>>

\* C3: as long as only analyzeTechnicals is called, a request for an address
\* returns a stored report without any fetch if and only if a report for
\* that address was stored less than 300000 ms before the request; any other
\* request (age 300000 ms or more, another address) fetches the three
\* series and computes.
C3_HitIffStoredWithinTtl ==
    ~cleared =>
        \A r \in Started :
            /\ req[r].path = "hit" <=> req[r].fresh
            /\ req[r].path = "hit" =>
                  /\ FetchCalls(r) = 0
                  /\ \A tf \in 1..3 : req[r].fetch[tf].stage = "idle"
                  /\ \E q \in Done : /\ req[q].path = "computed"
                                     /\ req[q].address = req[r].address
                                     /\ req[q].result = req[r].result
            /\ (req[r].path # "hit" /\ r \in Done) =>
                  \A tf \in 1..3 : req[r].fetch[tf].calls = 1

\* the second request was served from the cache in the last millisecond of
\* the entry's life
C3_Witness ==
    /\ ~cleared
    /\ req[2].path = "hit"
    /\ FetchCalls(2) = 0
    /\ \E k \in CacheKeys : /\ cache[k] # <<>>
                            /\ now - cache[k][1].timestamp = CACHE_TTL - 1

\* C4: on a cache miss exactly one fetch is issued per timeframe, a failed
\* one is never retried, and neither the computation starts nor a report is
\* returned before all three fetches have completed or failed.
C4_OneFetchPerTimeframeThenBarrier ==
    \A r \in Missed :
        /\ \A tf \in 1..3 : req[r].fetch[tf].calls <= 1
        /\ req[r].st \in {"analysed", "done"} =>
              \A tf \in 1..3 : /\ req[r].fetch[tf].stage = "settled"
                               /\ req[r].fetch[tf].calls = 1

\* a request whose 15-minute fetch has failed still waits for a running
\* fetch, the third not even issued
C4_Witness ==
    \E r \in Missed :
        /\ req[r].st = "fetching"
        /\ req[r].fetch[1].failed /\ req[r].fetch[1].calls = 1
        /\ req[r].fetch[2].stage = "running"
        /\ req[r].fetch[3].stage = "interval"

\* C5: two requests for the same uncached address that overlap each run
\* their own cycle: the later one is not served from the cache, once both
\* have returned six fetches have been issued, and a computed report is the
\* one computed from the request's own bars.
C5_NoCoalescing ==
    \A r \in Started :
        (req[r].concurrent # {} /\ ~req[r].fresh) =>
            /\ req[r].path # "hit"
            /\ \A q \in req[r].concurrent :
                  (q \in Done /\ r \in Done) => FetchCalls(q) + FetchCalls(r) = 6
            /\ req[r].path = "computed" => req[r].result = req[r].analysis

\* the second of two overlapping requests for one address has returned its
\* own computed report while the first is still fetching, all six fetches
\* issued
C5_Witness ==
    /\ req[2].concurrent = {1}
    /\ req[2].address = req[1].address
    /\ req[2].st = "done" /\ req[2].path = "computed"
    /\ req[1].st = "fetching"
    /\ FetchCalls(1) + FetchCalls(2) = 6

\* request r has a fetch in flight
HasRunningFetch(r) == \E tf \in 1..3 : req[r].fetch[tf].stage = "running"

InUnitInterval(x) == NGe(x, <<0, 1>>) /\ NGe(<<1, 1>>, x)

ConfidencesInUnitInterval(report) ==
    /\ InUnitInterval(report.trend.confidence)
    /\ InUnitInterval(report.volumeAnalysis.significance)
    /\ \A i \in 1..Len(report.patterns) : InUnitInterval(report.patterns[i].confidence)

\* C8: in every report analyzeTechnicals returns, and in every report the
\* computation produces, the trend confidence, each pattern confidence and
\* the volume significance lie in [0, 1].
C8_ConfidencesInUnitInterval ==
    \A r \in Requests :
        /\ req[r].result # <<>> => ConfidencesInUnitInterval(req[r].result[1])
        /\ req[r].analysis # <<>> => ConfidencesInUnitInterval(req[r].analysis[1])

\* a computed report with a pattern and a positive confidence was returned
C8_Witness ==
    \E r \in Done :
        /\ req[r].path = "computed"
        /\ Len(req[r].result[1].patterns) > 0
        /\ NGt(req[r].result[1].trend.confidence, <<0, 1>>)

\* the closes of the candles the pipeline works on
EngineCloses == closes(engine.candles)

\* the closes strictly below the two closes on each side
SupportPivotValues(prices) ==
    {prices[i] : i \in {j \in 3..(Len(prices) - 2) :
        /\ NLt(prices[j], prices[j - 1]) /\ NLt(prices[j], prices[j - 2])
        /\ NLt(prices[j], prices[j + 1]) /\ NLt(prices[j], prices[j + 2])}}

\* C9: for every 1-hour close sequence, the support list is strictly
\* descending, the resistance list is strictly ascending, neither holds a
\* value twice, and each has at most 3 entries.
C9_LevelsSortedDistinctAtMostThree ==
    engine.stage = "levels" =>
        LET support == engine.support
            resistance == engine.resistance
        IN  /\ Len(support) <= 3
            /\ Len(resistance) <= 3
            /\ \A i \in 1..(Len(support) - 1) : NGt(support[i], support[i + 1])
            /\ \A i \in 1..(Len(resistance) - 1) : NLt(resistance[i], resistance[i + 1])
            /\ Cardinality(SeqToSet(support)) = Len(support)
            /\ Cardinality(SeqToSet(resistance)) = Len(resistance)

\* a series with a repeated support pivot and more than three distinct ones,
\* whose levels have been computed
C9_Witness ==
    /\ engine.stage = "levels"
    /\ Cardinality(SupportPivotValues(EngineCloses)) > 3
    /\ Len(supportLoop(EngineCloses, <<>>, 2, Len(EngineCloses) - 3))
           > Cardinality(SupportPivotValues(EngineCloses))
    /\ Len(engine.support) = 3

\* C10: N price points in feed order give max(0, N - 1) candles; the k-th
\* candle opens at the value of point k and closes at the value of point
\* k + 1, its high is the larger and its low the smaller of the two, its
\* volume is 0 and the candles keep the order of the points.
C10_CandlesFromConsecutivePoints ==
    engine.stage # "points" =>
        LET points == engine.points
            bars == engine.candles
        IN  /\ Len(bars) = (IF Len(points) = 0 THEN 0 ELSE Len(points) - 1)
            /\ \A k \in 1..Len(bars) :
                  /\ bars[k].open = NumberOrZero(points[k].value)
                  /\ bars[k].close = NumberOrZero(points[k + 1].value)
                  /\ bars[k].timestamp = points[k + 1].unixTime
                  /\ bars[k].volume = Num(0)
                  /\ IF IsNaN(bars[k].open) \/ IsNaN(bars[k].close)
                     THEN IsNaN(bars[k].high) /\ IsNaN(bars[k].low)
                     ELSE /\ bars[k].high \in {bars[k].open, bars[k].close}
                          /\ bars[k].low \in {bars[k].open, bars[k].close}
                          /\ NGe(bars[k].high, bars[k].open) /\ NGe(bars[k].high, bars[k].close)
                          /\ NGe(bars[k].open, bars[k].low) /\ NGe(bars[k].close, bars[k].low)

\* four points that rise, fall and stay: three candles have been built
C10_Witness ==
    /\ engine.stage = "candles"
    /\ Len(engine.points) = 4
    /\ Len(engine.candles) = 3
    /\ NLt(engine.candles[1].open, engine.candles[1].close)
    /\ NGt(engine.candles[2].open, engine.candles[2].close)
    /\ engine.candles[3].high = engine.candles[3].low

(***************************************************************************)
(* The detectors and the RSI as functions of their arguments               *)
(* (SpecFunctions): identifyPatterns on candles whose highs are free, as   *)
(* its parameter type PriceCandle[] allows.                                *)
(***************************************************************************)
\* where a sequence of bars can have a raised high, as positions among the
\* bars
BarSpots == {3, 6, 9, 12, 15}

\* the highs of a bar: the common high 90, and raised highs
BarHighs == {90, 100, 104, 105, 110}

\* the numbers of bars: fewer than, exactly, and more than the window of 20
BarCounts == {19, 20, 22}

\* `size` bars that open, close and bottom at 80, with the given high at each
\* spot and the high 90 elsewhere
BarsWithHighs(size, highAt) ==
    [k \in 1..size |->
        [timestamp |-> Num(k), open |-> Num(80), close |-> Num(80),
         high |-> IF k \in BarSpots THEN Num(highAt[k]) ELSE Num(90),
         low |-> Num(80), volume |-> Num(0)]]

BarSeries == {BarsWithHighs(size, highAt) : size \in BarCounts, highAt \in [BarSpots -> BarHighs]}

\* the periods calculateRSI is applied with: its default 14, and shorter ones
RsiPeriods == {2, 3, 14}

\* the arguments calculateRSI is applied to: the candles of every series of
\* at most MaxShortLen points over {1, 2} with every period, and those of
\* the zigzags of five turns between 4 and 6 with the default period
RsiArguments ==
    {<<convertToCandles(PointsOf(values)), periods>> :
        values \in SeqsUpTo({Num(1), Num(2)}, MaxShortLen), periods \in RsiPeriods}
    \cup {<<convertToCandles(Zigzag(levels)), 14>> : levels \in [1..5 -> {4, 6}]}

InitFunctions ==
    /\ now = StartTime
    /\ ticks = 0
    /\ throttle = NewThrottle
    /\ cache = [k \in CacheKeys |-> <<>>]
    /\ req = [r \in Requests |-> NewRequest]
    /\ stores = {}
    /\ cleared = FALSE
    /\ \/ \E bars \in BarSeries :
              engine = [NewEngine EXCEPT !.family = "bars", !.stage = "candles",
                                         !.candles = bars]
       \/ \E arguments \in RsiArguments :
              engine = [NewEngine EXCEPT !.family = "periods", !.stage = "candles",
                                         !.candles = arguments[1],
                                         !.periods = arguments[2]]

\* identifyPatterns, lines 321-351, on the given bars
ApplyIdentifyPatterns ==
    /\ engine.stage = "candles"
    /\ engine.family = "bars"
    /\ engine' = [engine EXCEPT !.stage = "patterns",
                                 !.patterns = identifyPatterns(engine.candles)]
    /\ UNCHANGED serviceVars

\* calculateRSI, lines 203-236, with the given period
ApplyCalculateRSI ==
    /\ engine.stage = "candles"
    /\ engine.family = "periods"
    /\ engine' = [engine EXCEPT !.stage = "rsi",
                                 !.rsi = calculateRSI(engine.candles, engine.periods)]
    /\ UNCHANGED serviceVars

NextFunctions ==
    \/ ApplyIdentifyPatterns
    \/ ApplyCalculateRSI

SpecFunctions == InitFunctions /\ [][NextFunctions]_vars

(***************************************************************************)
(* Indicators                                                              *)
(***************************************************************************)
StrictlyIncreasing(values) ==
    \A i \in 1..(Len(values) - 1) : NLt(values[i], values[i + 1])

StrictlyDecreasing(values) ==
    \A i \in 1..(Len(values) - 1) : NGt(values[i], values[i + 1])

\* C11: the RSI of fewer than 15 candles is 50; of 15 or more candles whose
\* closes strictly increase it is 100, and whose closes strictly decrease it
\* is 0.
C11_RsiOfMonotoneSeries ==
    engine.stage = "rsi" =>
        LET bars == closes(engine.candles)
        IN  /\ Len(bars) < 15 => engine.rsi = Num(50)
            /\ Len(bars) >= 15 /\ StrictlyIncreasing(bars) => engine.rsi = Num(100)
            /\ Len(bars) >= 15 /\ StrictlyDecreasing(bars) => engine.rsi = Num(0)

C11_Witness ==
    /\ engine.stage = "rsi"
    /\ Len(engine.candles) = 16
    /\ StrictlyDecreasing(closes(engine.candles))
    /\ engine.rsi = Num(0)

\* C12: an indicator whose window is longer than the non-empty 1-hour series
\* takes its default: rsi 50 below 15 candles; the MACD value, signal and
\* histogram 0 below 26; sma20 and ema20 0 below 20; sma50 0 below 50; sma200
\* 0 below 200.
C12_ShortSeriesGiveDefaults ==
    engine.stage = "indicators" =>
        LET size == Len(engine.candles)
            found == engine.indicators
        IN  /\ size < 15 => found.rsi = Num(50)
            /\ size < 26 => /\ found.macd.value = Num(0)
                            /\ found.macd.signal = Num(0)
                            /\ found.macd.histogram = Num(0)
            /\ size < 20 => /\ found.movingAverages.sma20 = Num(0)
                            /\ found.movingAverages.ema20 = Num(0)
            /\ size < 50 => found.movingAverages.sma50 = Num(0)
            /\ size < 200 => found.movingAverages.sma200 = Num(0)

\* what does hold: the defaults of rsi and of the simple moving averages
C12_RsiAndSmaDefaults ==
    engine.stage = "indicators" =>
        LET size == Len(engine.candles)
            found == engine.indicators
        IN  /\ size < 15 => found.rsi = Num(50)
            /\ size < 20 => found.movingAverages.sma20 = Num(0)
            /\ size < 50 => found.movingAverages.sma50 = Num(0)
            /\ size < 200 => found.movingAverages.sma200 = Num(0)

\* below 20 candles ema20 is the last close, not 0
C12_EmaIsLastClose ==
    /\ engine.stage = "indicators"
    /\ Len(engine.candles) = 1
    /\ engine.candles[1].close = Num(100)
    /\ engine.indicators.movingAverages.ema20 = Num(100)

\* between 12 and 25 candles the MACD value is ema12 minus the last close
C12_MacdOfShortSeries ==
    /\ engine.stage = "indicators"
    /\ Len(engine.candles) = 13
    /\ engine.candles[13].close = Num(99)
    /\ engine.indicators.macd.value = Ratio(11, 13)

(***************************************************************************)
(* Patterns                                                                *)
(***************************************************************************)
\* the closes of the last 20 candles
WindowCloses == closes(JsSlice(engine.candles, -20, Len(engine.candles)))

\* the closes at the 0-based window positions i and j are the two lowest
TwoLowestAt(window, i, j) ==
    \A k \in 0..(Len(window) - 1) :
        k \notin {i, j} => /\ NGt(window[k + 1], window[i + 1])
                           /\ NGt(window[k + 1], window[j + 1])

DoubleBottomOf(lastClose) ==
    [name |-> "Double Bottom", confidence |-> Ratio(8, 10), implication |-> "bullish",
     priceTarget |-> NMul(lastClose, Ratio(11, 10))]

HasDoubleBottom ==
    \E k \in 1..Len(engine.patterns) : engine.patterns[k].name = "Double Bottom"

\* C13: when the two lowest closes of the last 20 candles are six positions
\* apart and within 2% of each other, the patterns hold a Double Bottom of
\* confidence 0.8 and target 1.1 times the last close; when they are five or
\* fewer positions apart there is no Double Bottom.
C13_DoubleBottomOfTwoLows ==
    engine.stage = "patterns" /\ Len(engine.candles) >= 20 =>
        \A i \in 0..19, gap \in 1..6 :
            i + gap <= 19 /\ TwoLowestAt(WindowCloses, i, i + gap) =>
                LET low1 == WindowCloses[i + 1]
                    low2 == WindowCloses[i + gap + 1]
                    lastClose == engine.candles[Len(engine.candles)].close
                IN  /\ gap = 6 /\ NLt(NDiv(MathAbs(NSub(low1, low2)), low1), Ratio(2, 100))
                       => \E k \in 1..Len(engine.patterns) :
                              engine.patterns[k] = DoubleBottomOf(lastClose)
                    /\ gap <= 5 => ~HasDoubleBottom

\* two equal lowest closes six positions apart, and no Double Bottom
C13_TwoLowsWithoutPattern ==
    /\ engine.stage = "patterns"
    /\ Len(engine.candles) = 20
    /\ TwoLowestAt(WindowCloses, 5, 11)
    /\ WindowCloses[6] = Num(90)
    /\ WindowCloses[12] = Num(90)
    /\ engine.patterns = <<>>

PatternNames(patterns) == [k \in 1..Len(patterns) |-> patterns[k].name]

FourPatternLists ==
    {<<>>, <<"Double Bottom">>, <<"Head and Shoulders">>,
     <<"Double Bottom", "Head and Shoulders">>}

\* C14: the patterns are one of the four lists [], [Double Bottom],
\* [Head and Shoulders], [Double Bottom, Head and Shoulders], and each of the
\* four is the outcome of some 1-hour series.
C14_FourPatternListsAllOccur ==
    /\ engine.stage = "patterns" => PatternNames(engine.patterns) \in FourPatternLists
    /\ \A outcome \in FourPatternLists :
           \E points \in PatternSeries :
               /\ Len(points) > 1
               /\ PatternNames(identifyPatterns(convertToCandles(points))) = outcome

\* what does hold: no candle built from consecutive points is a peak, so the
\* patterns are [] or [Double Bottom]
C14_NeverHeadAndShoulders ==
    engine.stage = "patterns" =>
        /\ findPeaks(engine.candles) = <<>>
        /\ PatternNames(engine.patterns) \in {<<>>, <<"Double Bottom">>}

\* closes with a head between two equal shoulders, and no pattern
C14_ShouldersWithoutPattern ==
    /\ engine.stage = "patterns"
    /\ engine.family = "shape"
    /\ engine.points[8].value = Num(104)
    /\ engine.points[13].value = Num(110)
    /\ engine.points[18].value = Num(104)
    /\ \A k \in 1..21 \ {8, 13, 18} : engine.points[k].value = Num(100)
    /\ engine.patterns = <<>>

(***************************************************************************)
(* Levels and the last close                                               *)
(***************************************************************************)
\* the closes strictly above the two closes on each side
ResistancePivotValues(prices) ==
    {prices[i] : i \in {j \in 3..(Len(prices) - 2) :
        /\ NGt(prices[j], prices[j - 1]) /\ NGt(prices[j], prices[j - 2])
        /\ NGt(prices[j], prices[j + 1]) /\ NGt(prices[j], prices[j + 2])}}

\* the (at most 3) values of a set that lie below a price and nearest to it
NearestBelow(values, price) ==
    LET below == {v \in values : NLt(v, price)}
    IN  {v \in below : Cardinality({w \in below : NGt(w, v)}) < 3}

\* the (at most 3) values of a set that lie above a price and nearest to it
NearestAbove(values, price) ==
    LET above == {v \in values : NGt(v, price)}
    IN  {v \in above : Cardinality({w \in above : NLt(w, v)}) < 3}

\* C15: the kept support levels are the (at most 3) support pivot values
\* nearest to and below the last 1-hour close, and the kept resistance levels
\* the (at most 3) resistance pivot values nearest above it.
C15_LevelsNearestToLastClose ==
    engine.stage = "levels" =>
        LET lastClose == EngineCloses[Len(EngineCloses)]
        IN  /\ SeqToSet(engine.support)
                   = NearestBelow(SupportPivotValues(EngineCloses), lastClose)
            /\ SeqToSet(engine.resistance)
                   = NearestAbove(ResistancePivotValues(EngineCloses), lastClose)

\* what does hold: the kept levels are the three highest pivot values of each
\* kind, wherever the last close is
C15_HighestPivotsKept ==
    engine.stage = "levels" =>
        /\ SeqToSet(engine.support)
               = NearestBelow(SupportPivotValues(EngineCloses), PInf)
        /\ SeqToSet(engine.resistance)
               = NearestBelow(ResistancePivotValues(EngineCloses), PInf)

\* four resistance pivots above the last close: the nearest one is dropped
C15_NearestResistanceDropped ==
    /\ engine.stage = "levels"
    /\ EngineCloses[Len(EngineCloses)] = Num(5)
    /\ ResistancePivotValues(EngineCloses) = {Num(6), Num(7), Num(8), Num(9)}
    /\ engine.resistance = <<Num(7), Num(8), Num(9)>>

\* the last close lies below every kept support
C15_SupportsAboveLastClose ==
    /\ engine.stage = "levels"
    /\ EngineCloses[Len(EngineCloses)] = Num(0)
    /\ engine.support = <<Num(4)>>

(***************************************************************************)
(* Divisions                                                               *)
(***************************************************************************)
\* C16: no division has a zero divisor: the trend classification does not
\* divide by a first close of the window that is 0, and the Double Bottom
\* test does not divide by a lowest low that is 0.
C16_NoDivisionByZero ==
    /\ engine.stage = "trend" /\ Len(engine.candles) >= engine.trend.period
           => trendDivisor(engine.candles, engine.trend.period) # Num(0)
    /\ engine.stage = "patterns" /\ Len(engine.candles) >= 20
           => lowestLows(engine.candles)[1].price # Num(0)

\* a window that starts at the close 0: the change is infinite and the trend
\* is reported bullish
C16_BullishFromZero ==
    /\ engine.stage = "trend"
    /\ engine.family = "trend"
    /\ Len(engine.candles) = engine.trend.period
    /\ trendDivisor(engine.candles, engine.trend.period) = Num(0)
    /\ engine.candles[Len(engine.candles)].close = Num(98)
    /\ engine.trend.value = "bullish"

\* the Double Bottom test divides 0 by 0
C16_LowestLowZero ==
    /\ engine.stage = "patterns"
    /\ engine.family = "trend"
    /\ Len(engine.candles) >= 20
    /\ lowestLows(engine.candles)[1].price = Num(0)
    /\ lowestLows(engine.candles)[2].price = Num(0)

(***************************************************************************)
(* Confidence, trend and reasoning                                         *)
(***************************************************************************)
Tenths(cond, weight) == IF cond THEN weight ELSE 0

\* the weights, in tenths, of the conditions that hold in the analysed data
WeightsInTenths ==
    LET found == engine.indicators
        averages == found.movingAverages
    IN  Tenths(NGt(found.rsi, Num(70)) \/ NLt(found.rsi, Num(30)), 2)
        + Tenths(NGt(MathAbs(found.macd.histogram), MathAbs(found.macd.signal)), 2)
        + Tenths(NGt(averages.sma20, averages.sma50), 2)
        + Tenths(NGt(averages.sma50, averages.sma200), 2)
        + Tenths(determineTrend(engine.fifteenMin, 20) = determineTrend(engine.candles, 50), 1)
        + Tenths(determineTrend(engine.candles, 50) = determineTrend(engine.fourHour, 50), 1)

\* C17: the confidence is min(1, sum of the weights of the conditions that
\* hold): 0.2 for RSI > 70 or < 30, 0.2 for |histogram| > |signal|, 0.2 for
\* sma20 > sma50, 0.2 for sma50 > sma200, 0.1 for 15-minute trend = 1-hour
\* trend, 0.1 for 1-hour trend = 4-hour trend.
C17_ConfidenceIsCappedSumOfWeights ==
    engine.stage = "report" =>
        engine.report.trend.confidence
            = Ratio(IF WeightsInTenths > 10 THEN 10 ELSE WeightsInTenths, 10)

\* every condition but the first trend comparison holds
C17_Witness ==
    /\ engine.stage = "report"
    /\ WeightsInTenths = 9
    /\ determineTrend(engine.fifteenMin, 20) = "bullish"
    /\ determineTrend(engine.candles, 50) = "neutral"
    /\ determineTrend(engine.fourHour, 50) = "neutral"
    /\ engine.report.trend.confidence = Ratio(9, 10)

\* the classification of a sequence of closes over a period, as stated
ClassifyTrend(bars, period) ==
    IF Len(bars) < period THEN "neutral"
    ELSE LET lastClose == bars[Len(bars)]
             first == bars[Len(bars) - period + 1]
             sma == NDiv(sumOf(SubSeq(bars, Len(bars) - period + 1, Len(bars))), Num(period))
             pctChange == NMul(NDiv(NSub(lastClose, first), first), Num(100))
             rising == NGt(lastClose, sma) /\ NGt(pctChange, Num(1))
             falling == NLt(lastClose, sma) /\ NLt(pctChange, Num(-1))
         IN  CASE rising -> "bullish"
               [] ~rising /\ falling -> "bearish"
               [] OTHER -> "neutral"

\* C18: a series shorter than the period is neutral; otherwise it is bullish
\* iff the last close is above the SMA and the change since the first close
\* of the window is above 1%, bearish iff the last close is below the SMA and
\* the change below -1%, neutral otherwise; the report's short-term trend is
\* that of the 15-minute candles over 20, its medium-term trend that of the
\* 1-hour candles over 50.
C18_TrendClassification ==
    /\ engine.stage = "trend" =>
           engine.trend.value = ClassifyTrend(closes(engine.candles), engine.trend.period)
    /\ engine.stage = "report" =>
           /\ engine.report.trend.shortTerm = ClassifyTrend(closes(engine.fifteenMin), 20)
           /\ engine.report.trend.mediumTerm = ClassifyTrend(closes(engine.candles), 50)

\* exactly 50 candles that fell by 2% below their average
C18_Witness ==
    /\ engine.stage = "trend"
    /\ engine.trend.period = MediumPeriod
    /\ Len(engine.candles) = MediumPeriod
    /\ engine.candles[1].close = Num(100)
    /\ engine.candles[MediumPeriod].close = Num(98)
    /\ engine.trend.value = "bearish"

\* the sentences a reasoning text can be made of
AlignmentSentence(shortTerm, mediumTerm) ==
    IF shortTerm = mediumTerm
    THEN "Consistent " \o shortTerm \o " trend across timeframes"
    ELSE "Mixed signals: " \o shortTerm \o " short-term, " \o mediumTerm \o " medium-term"

RsiSentences ==
    {"Overbought RSI conditions suggest potential pullback",
     "Oversold RSI conditions suggest potential bounce"}

MacdSentences ==
    {"MACD showing strong positive momentum", "MACD indicating negative momentum"}

BullishAligned == "All moving averages aligned bullishly (20 > 50 > 200)"
BullishResisted == "Short-term moving averages bullish but long-term resistance ahead"
BearishAligned == "All moving averages aligned bearishly (20 < 50 < 200)"
BearishSupported == "Short-term moving averages bearish but long-term support present"

AverageSentences == {BullishAligned, BullishResisted, BearishAligned, BearishSupported}

\* at most one sentence of a set, as a sequence
AtMostOne(sentences) == {<<>>} \cup {<<sentence>> : sentence \in sentences}

\* the text is the alignment sentence of the two trends followed by these
\* RSI, MACD and moving-average sentences, joined by ". "
MadeOf(text, shortTerm, mediumTerm, rsiPart, macdPart, averagePart) ==
    text = join(<<AlignmentSentence(shortTerm, mediumTerm)>> \o rsiPart \o macdPart
                \o averagePart)

\* C19: the reasoning holds an RSI sentence exactly when RSI > 70 or
\* RSI < 30, and a MACD sentence exactly when |histogram| > |signal|.
C19_SentencePerConfidenceSignal ==
    engine.stage = "report" =>
        \E rsiPart \in AtMostOne(RsiSentences), macdPart \in AtMostOne(MacdSentences),
           averagePart \in AtMostOne(AverageSentences) :
            /\ MadeOf(engine.report.trend.reasoning, engine.report.trend.shortTerm,
                      engine.report.trend.mediumTerm, rsiPart, macdPart, averagePart)
            /\ rsiPart # <<>> <=> \/ NGt(engine.indicators.rsi, Num(70))
                                  \/ NLt(engine.indicators.rsi, Num(30))
            /\ macdPart # <<>> <=> NGt(MathAbs(engine.indicators.macd.histogram),
                                       MathAbs(engine.indicators.macd.signal))

\* what does hold: the RSI sentence goes with the RSI condition, and the MACD
\* sentence with a histogram that is positive and above, or negative and
\* below, the signal
C19_SentencePerReasoningSignal ==
    engine.stage = "report" =>
        \E rsiPart \in AtMostOne(RsiSentences), macdPart \in AtMostOne(MacdSentences),
           averagePart \in AtMostOne(AverageSentences) :
            /\ MadeOf(engine.report.trend.reasoning, engine.report.trend.shortTerm,
                      engine.report.trend.mediumTerm, rsiPart, macdPart, averagePart)
            /\ rsiPart # <<>> <=> \/ NGt(engine.indicators.rsi, Num(70))
                                  \/ NLt(engine.indicators.rsi, Num(30))
            /\ macdPart # <<>> <=>
                   \/ /\ NGt(engine.indicators.macd.histogram, Num(0))
                      /\ NGt(engine.indicators.macd.histogram, engine.indicators.macd.signal)
                   \/ /\ NLt(engine.indicators.macd.histogram, Num(0))
                      /\ NLt(engine.indicators.macd.histogram, engine.indicators.macd.signal)

\* histogram 1 against signal -2: a MACD sentence without the MACD weight
C19_MacdSentenceWithoutWeight ==
    /\ engine.stage = "report"
    /\ engine.indicators.rsi = Num(50)
    /\ engine.indicators.macd.histogram = Num(1)
    /\ engine.indicators.macd.signal = Num(-2)
    /\ engine.indicators.movingAverages.sma20 = engine.indicators.movingAverages.sma50
    /\ engine.report.trend.reasoning
           = "Consistent neutral trend across timeframes. MACD showing strong positive momentum"
    /\ engine.report.trend.confidence = Ratio(2, 10)

\* the moving-average sentence that goes with an ordering of the averages
AverageSentenceFor(averages) ==
    IF NGt(averages.sma20, averages.sma50)
    THEN IF NGt(averages.sma50, averages.sma200) THEN <<BullishAligned>>
         ELSE <<BullishResisted>>
    ELSE IF NLt(averages.sma20, averages.sma50)
    THEN IF NLt(averages.sma50, averages.sma200) THEN <<BearishAligned>>
         ELSE <<BearishSupported>>
    ELSE <<>>

\* the moving-average part of a reasoning text for the given trends
AveragePartOf(text, shortTerm, mediumTerm) ==
    CHOOSE averagePart \in AtMostOne(AverageSentences) :
        \E rsiPart \in AtMostOne(RsiSentences), macdPart \in AtMostOne(MacdSentences) :
            MadeOf(text, shortTerm, mediumTerm, rsiPart, macdPart, averagePart)

\* the moving-average sentences that occur over all indicator values
AveragePhrasingsUsed ==
    {AveragePartOf(generateTrendReasoning("neutral", "neutral", indicators),
                   "neutral", "neutral") : indicators \in IndicatorChoices} \ {<<>>}

\* C20 as stated: the reasoning is one alignment sentence followed, in this
\* order, by at most one RSI, one MACD and one moving-average sentence joined
\* by ". ", the moving-average sentence being one of three phrasings.
C20_ThreeAveragePhrasings ==
    /\ engine.stage = "report" =>
           \E rsiPart \in AtMostOne(RsiSentences), macdPart \in AtMostOne(MacdSentences),
              averagePart \in AtMostOne(AverageSentences) :
               MadeOf(engine.report.trend.reasoning, engine.report.trend.shortTerm,
                      engine.report.trend.mediumTerm, rsiPart, macdPart, averagePart)
    /\ Cardinality(AveragePhrasingsUsed) = 3

\* C20, amended: the reasoning is one alignment sentence followed, in this
\* order, by at most one RSI, one MACD and one moving-average sentence joined
\* by ". "; the moving-average sentence is one of four phrasings fixed by the
\* order of sma20, sma50 and sma200 (none when sma20 = sma50).
C20_ReasoningStructure ==
    engine.stage = "report" =>
        \E rsiPart \in AtMostOne(RsiSentences), macdPart \in AtMostOne(MacdSentences) :
            MadeOf(engine.report.trend.reasoning, engine.report.trend.shortTerm,
                   engine.report.trend.mediumTerm, rsiPart, macdPart,
                   AverageSentenceFor(engine.indicators.movingAverages))

\* a reasoning of four sentences, the last one the fourth phrasing
C20_Witness ==
    /\ engine.stage = "report"
    /\ engine.report.trend.reasoning
           = "Mixed signals: bullish short-term, neutral medium-term. "
             \o "Oversold RSI conditions suggest potential bounce. "
             \o "MACD indicating negative momentum. "
             \o "Short-term moving averages bearish but long-term support present"

(***************************************************************************)
(* Pivots                                                                  *)
(***************************************************************************)
\* C21: every support level is a close strictly below the two closes on
\* each side of it, every resistance level a close strictly above them; a
\* sequence of fewer than 5 closes, or without such a close, has no levels.
C21_LevelsArePivots ==
    engine.stage = "levels" =>
        /\ SeqToSet(engine.support) \subseteq SupportPivotValues(EngineCloses)
        /\ SeqToSet(engine.resistance) \subseteq ResistancePivotValues(EngineCloses)
        /\ Len(EngineCloses) < 5 => engine.support = <<>> /\ engine.resistance = <<>>
        /\ SupportPivotValues(EngineCloses) = {} => engine.support = <<>>
        /\ ResistancePivotValues(EngineCloses) = {} => engine.resistance = <<>>

\* five closes 2 2 1 2 2: the shortest sequence with a support level
C21_Witness ==
    /\ engine.stage = "levels"
    /\ EngineCloses = <<Num(2), Num(2), Num(1), Num(2), Num(2)>>
    /\ engine.support = <<Num(1)>>
    /\ engine.resistance = <<>>

\* the largest value of a non-empty list of levels
LargestOf(levels) ==
    CHOOSE v \in SeqToSet(levels) : \A w \in SeqToSet(levels) : NGe(v, w)

\* C22: strongestSupport is the first support level and strongestResistance
\* the last resistance level, each the largest of its list; each is 0
\* exactly when its list is empty or that level is 0.
C22_StrongestLevels ==
    engine.stage = "report" =>
        LET levels == engine.report.supportResistance
            support == levels.support
            resistance == levels.resistance
        IN  /\ support # <<>> => /\ levels.strongestSupport = support[1]
                                 /\ levels.strongestSupport = LargestOf(support)
            /\ resistance # <<>> =>
                   /\ levels.strongestResistance = resistance[Len(resistance)]
                   /\ levels.strongestResistance = LargestOf(resistance)
            /\ levels.strongestSupport = Num(0)
                   <=> support = <<>> \/ support[1] = Num(0)
            /\ levels.strongestResistance = Num(0)
                   <=> resistance = <<>> \/ resistance[Len(resistance)] = Num(0)

\* two support levels and two resistance levels
C22_Witness ==
    /\ engine.stage = "report"
    /\ engine.report.supportResistance.support = <<Num(4), Num(0)>>
    /\ engine.report.supportResistance.resistance = <<Num(8), Num(9)>>
    /\ engine.report.supportResistance.strongestSupport = Num(4)
    /\ engine.report.supportResistance.strongestResistance = Num(9)

\* a single support level 0
C22_ZeroSupport ==
    /\ engine.stage = "report"
    /\ engine.report.supportResistance.support = <<Num(0)>>
    /\ engine.report.supportResistance.strongestSupport = Num(0)

(***************************************************************************)
(* The two detectors                                                       *)
(***************************************************************************)
\* the lows of the last 20 candles
WindowLows ==
    LET recent == JsSlice(engine.candles, -20, Len(engine.candles))
    IN  [k \in 1..Len(recent) |-> recent[k].low]

\* the low at position p comes before the low at position q: it is lower,
\* or as low and earlier
LowerOrEarlier(lows, p, q) == NLt(lows[p], lows[q]) \/ (lows[p] = lows[q] /\ p < q)

LowestPosition(lows, excluded) ==
    CHOOSE p \in DOMAIN lows \ excluded :
        \A q \in DOMAIN lows \ (excluded \cup {p}) : LowerOrEarlier(lows, p, q)

\* the two lowest lows are more than 5 positions apart and differ by less
\* than 2% of the lower one
TwoLowsApart(lows) ==
    LET lowest == LowestPosition(lows, {})
        second == LowestPosition(lows, {lowest})
    IN  /\ AbsInt(lowest - second) > 5
        /\ NLt(NDiv(MathAbs(NSub(lows[lowest], lows[second])), lows[lowest]), Ratio(2, 100))

\* C23: with at least 20 candles the patterns hold the Double Bottom
\* (confidence 0.8, bullish, target 1.1 times the last close) if and only if
\* the two lowest lows of the last 20 candles, ties going to the earlier one,
\* are more than 5 positions apart and differ by less than 2% of the lower
\* one; with fewer than 20 candles they never hold it.
C23_DoubleBottomIff ==
    engine.stage = "patterns" =>
        LET lastClose == engine.candles[Len(engine.candles)].close
            emitted == \E k \in 1..Len(engine.patterns) :
                           engine.patterns[k] = DoubleBottomOf(lastClose)
        IN  /\ HasDoubleBottom <=> emitted
            /\ Len(engine.candles) < 20 => ~HasDoubleBottom
            /\ Len(engine.candles) >= 20 => (emitted <=> TwoLowsApart(WindowLows))

\* the lower low in the last candle and the other one six candles earlier
C23_Witness ==
    /\ engine.stage = "patterns"
    /\ engine.family = "dips"
    /\ Len(engine.candles) = 22
    /\ WindowLows[20] = Num(90)
    /\ WindowLows[14] = Num(91)
    /\ LowestPosition(WindowLows, {}) = 20
    /\ LowestPosition(WindowLows, {20}) = 14
    /\ HasDoubleBottom

\* the highs of the last 20 candles
WindowHighs ==
    LET recent == JsSlice(engine.candles, -20, Len(engine.candles))
    IN  [k \in 1..Len(recent) |-> recent[k].high]

\* the positions of the highs strictly above both neighbours' highs
PeakPositions(highs) ==
    {k \in 2..(Len(highs) - 1) : NGt(highs[k], highs[k - 1]) /\ NGt(highs[k], highs[k + 1])}

LatestOf(positions) == CHOOSE k \in positions : \A other \in positions : other <= k

\* the three latest peaks are a head above two shoulders that differ by less
\* than 5% of the left one
HeadAboveShoulders(highs) ==
    LET peaks == PeakPositions(highs)
        right == LatestOf(peaks)
        middle == LatestOf(peaks \ {right})
        left == LatestOf(peaks \ {right, middle})
    IN  /\ Cardinality(peaks) >= 3
        /\ NGt(highs[middle], highs[left])
        /\ NGt(highs[middle], highs[right])
        /\ NLt(NDiv(MathAbs(NSub(highs[left], highs[right])), highs[left]), Ratio(5, 100))

HeadAndShouldersOf(lastClose) ==
    [name |-> "Head and Shoulders", confidence |-> Ratio(7, 10), implication |-> "bearish",
     priceTarget |-> NMul(lastClose, Ratio(9, 10))]

HasHeadAndShoulders ==
    \E k \in 1..Len(engine.patterns) : engine.patterns[k].name = "Head and Shoulders"

\* C24: with at least 20 bars the patterns hold the Head and Shoulders
\* (confidence 0.7, bearish, target 0.9 times the last close) if and only if
\* the last 20 bars have at least 3 peaks and the three latest are a head
\* strictly above both shoulders with |left - right| / left < 0.05; with
\* fewer than 3 peaks or fewer than 20 bars they never hold it.
C24_HeadAndShouldersIff ==
    engine.stage = "patterns" =>
        LET lastClose == engine.candles[Len(engine.candles)].close
            emitted == \E k \in 1..Len(engine.patterns) :
                           engine.patterns[k] = HeadAndShouldersOf(lastClose)
        IN  /\ HasHeadAndShoulders <=> emitted
            /\ Len(engine.candles) < 20 => ~HasHeadAndShoulders
            /\ Len(engine.candles) >= 20 => (emitted <=> HeadAboveShoulders(WindowHighs))

\* four peaks of which the latest three are shoulders of 105 and 104 around a
\* head of 110, while the earliest three are not
C24_Witness ==
    /\ engine.stage = "patterns"
    /\ engine.family = "bars"
    /\ Len(engine.candles) = 20
    /\ PeakPositions(WindowHighs) = {6, 9, 12, 15}
    /\ WindowHighs[6] = Num(110)
    /\ WindowHighs[9] = Num(105)
    /\ WindowHighs[12] = Num(110)
    /\ WindowHighs[15] = Num(104)
    /\ HasHeadAndShoulders

(***************************************************************************)
(* Wilder's recurrence                                                     *)
(***************************************************************************)
\* the gain and the loss of the change that ends at the 1-based close k
GainLoss(bars, k) ==
    LET change == NSub(bars[k], bars[k - 1])
    IN  IF NGe(change, Num(0)) THEN <<change, Num(0)>> ELSE <<Num(0), NNeg(change)>>

\* the averages after the change that ends at the close k: the means of the
\* first `period` changes, then smoothed with the same period
RECURSIVE WilderAverages(_, _, _)
WilderAverages(bars, period, k) ==
    IF k = period + 1
    THEN <<NDiv(sumOf([j \in 1..period |-> GainLoss(bars, j + 1)[1]]), Num(period)),
           NDiv(sumOf([j \in 1..period |-> GainLoss(bars, j + 1)[2]]), Num(period))>>
    ELSE LET before == WilderAverages(bars, period, k - 1)
         IN  <<NDiv(NAdd(NMul(before[1], Num(period - 1)), GainLoss(bars, k)[1]), Num(period)),
               NDiv(NAdd(NMul(before[2], Num(period - 1)), GainLoss(bars, k)[2]), Num(period))>>

WilderRSI(bars, period) ==
    IF Len(bars) < period + 1 THEN Num(50)
    ELSE LET averages == WilderAverages(bars, period, Len(bars))
         IN  IF averages[2] = Num(0) THEN Num(100)
             ELSE NSub(Num(100),
                       NDiv(Num(100), NAdd(Num(1), NDiv(averages[1], averages[2]))))

\* C25: the RSI is that of Wilder's recurrence with the given period in the
\* seed and in the smoothing step, for every period.
C25_WilderForEveryPeriod ==
    engine.stage = "rsi" /\ engine.family = "periods" =>
        engine.rsi = WilderRSI(closes(engine.candles), engine.periods)

\* what does hold: the recurrence for the period 14
C25_WilderForFourteen ==
    engine.stage = "rsi" /\ engine.family = "periods" /\ engine.periods = 14 =>
        engine.rsi = WilderRSI(closes(engine.candles), engine.periods)

\* closes 1 2 1 2 with the period 2: 375/7 instead of 75
C25_SmoothedByFourteen ==
    /\ engine.stage = "rsi"
    /\ engine.periods = 2
    /\ closes(engine.candles) = <<Num(1), Num(2), Num(1), Num(2)>>
    /\ WilderRSI(closes(engine.candles), 2) = Num(75)
    /\ engine.rsi = Ratio(375, 7)

(***************************************************************************)
(* The candles after the analysis                                          *)
(***************************************************************************)
\* C26: performAnalysis leaves the 15-minute, 1-hour and 4-hour candles it
\* was given as they were: the same candles in the same order.
C26_CandlesUnchangedByAnalysis ==
    [][engine.stage = "candles" /\ engine'.stage = "report" =>
           /\ engine'.fifteenMin = engine.fifteenMin
           /\ engine'.candles = engine.candles
           /\ engine'.fourHour = engine.fourHour]_vars

\* an analysis of 1-hour candles that are not in the order of their lows, so
\* that the sort of isDoubleBottom had something to reorder
C26_Witness ==
    /\ engine.stage = "report"
    /\ Len(engine.candles) >= 20
    /\ NGt(engine.candles[1].low, engine.candles[Len(engine.candles)].low)
    /\ sortRecentLows(arraysGiven([fifteenMin |-> engine.fifteenMin,
                                   oneHour |-> engine.candles,
                                   fourHour |-> engine.fourHour])).lows[1].index = 19

(***************************************************************************)
(* Candles built from price points have no peak                            *)
(***************************************************************************)
\* the candles are those that candle construction gives for some points: each
\* opens at the close before it and has the larger of open and close as high
BuiltFromPoints(candles) ==
    /\ \A k \in 2..Len(candles) : candles[k].open = candles[k - 1].close
    /\ \A k \in 1..Len(candles) :
           candles[k].high = MathMax(candles[k].open, candles[k].close)

NamesHeadAndShoulders(patterns) ==
    \E k \in 1..Len(patterns) : patterns[k].name = "Head and Shoulders"

\* C27: the candles of every series are built from price points, findPeaks
\* finds no peak in their last 20, and neither the patterns nor a report
\* name a Head and Shoulders.
C27_BuiltCandlesHaveNoPeak ==
    /\ BuiltFromPoints(engine.candles)
    /\ Len(engine.candles) >= 3 =>
           findPeaks(JsSlice(engine.candles, -20, Len(engine.candles))) = <<>>
    /\ ~NamesHeadAndShoulders(engine.patterns)
    /\ engine.stage = "report" => ~NamesHeadAndShoulders(engine.report.patterns)

\* the closes of the last 20 candles rise to 104, 110 and 104 with 100
\* between, a head between two equal shoulders; no candle is a peak
C27_Witness ==
    /\ engine.stage = "patterns"
    /\ Len(engine.candles) = 20
    /\ closes(engine.candles) =
           [k \in 1..20 |-> IF k \in {8, 16} THEN Num(104)
                            ELSE IF k = 12 THEN Num(110) ELSE Num(100)]
    /\ findPeaks(engine.candles) = <<>>
    /\ engine.patterns = <<>>

(***************************************************************************)
(* The default report and the cache                                        *)
(***************************************************************************)
DefaultPaths == {"default-empty", "default-error"}

\* the step ends request r in the default report
EndsInDefault(r) == req[r].st # "done" /\ req'[r].st = "done" /\ req'[r].path \in DefaultPaths

\* the entry of the key, if any, holds the report that a request for the
\* address computed, and the report satisfies the schema
HoldsComputedReport(key) ==
    cache[key] # <<>> =>
        /\ TechnicalAnalysisSchema(cache[key][1].data)
        /\ \E q \in Requests :
               /\ req[q].st \in {"analysed", "done"}
               /\ req[q].analysis = <<cache[key][1].data>>
               /\ cacheKey(req[q].address) = key

\* the step starts request r for an address for which a request has ended in
\* the default report and none has stored a report
StartsAfterFailure(r) ==
    /\ req[r].st = "idle"
    /\ req'[r].st # "idle"
    /\ \E q \in Requests : /\ req[q].st = "done"
                            /\ req[q].path \in DefaultPaths
                            /\ req[q].address = req'[r].address
    /\ \A s \in stores : s.key # cacheKey(req'[r].address)

StartedFunctions == {c \in Requests \X (1..3) : req[c[1]].fetch[c[2]].calls > 0}

\* those whose function has been started and has not settled
Unsettled == {c \in Requests \X (1..3) : req[c[1]].fetch[c[2]].stage = "running"}

\* every call of Throttle.add that was made has settled
AllSettled ==
    \A r \in Requests, tf \in 1..3 :
        req[r].fetch[tf].stage \in {"idle", "body", "settled"}

\* C29: the functions started and not yet settled are never more than
\* limit, running counts them, and running is 0 when all have settled.
C29_RunningWithinLimit ==
    /\ throttle.running = Cardinality(Unsettled)
    /\ 0 <= throttle.running
    /\ throttle.running <= throttle.limit
    /\ AllSettled => throttle.running = 0

\* what does hold: running counts the unsettled functions and is 0 when all
\* have settled
C29_RunningCountsUnsettled ==
    /\ throttle.running = Cardinality(Unsettled)
    /\ AllSettled => throttle.running = 0

\* four functions run at once under the limit 3
C29_FourRunning ==
    /\ throttle.limit = 3
    /\ throttle.running = 4
    /\ Cardinality(Unsettled) = 4

\* C30: the starts of any two functions are at least interval apart.
C30_StartsAnIntervalApart ==
    \A c \in StartedFunctions, e \in StartedFunctions :
        c # e =>
            \/ req[c[1]].fetch[c[2]].startedAt - req[e[1]].fetch[e[2]].startedAt
                  >= throttle.interval
            \/ req[e[1]].fetch[e[2]].startedAt - req[c[1]].fetch[c[2]].startedAt
                  >= throttle.interval

\* what does hold: a function that is started without the interval wait is
\* started at least interval after the start before it
C30_ImmediateStartsApart ==
    [][\A r \in Requests, tf \in 1..3 :
          /\ req[r].fetch[tf].stage \in {"idle", "gate"}
          /\ req'[r].fetch[tf].stage = "running"
          => req'[r].fetch[tf].startedAt - throttle.lastCall >= throttle.interval]_vars

\* two functions of one request started at the same instant
C30_StartedTogether ==
    \E r \in Requests :
        /\ req[r].fetch[2].calls = 1
        /\ req[r].fetch[3].calls = 1
        /\ req[r].fetch[2].startedAt = req[r].fetch[3].startedAt

====
